---------------------------- MODULE Spec2Model ----------------------------
(***************************************************************************)
(* Verification model of the Starlight Sentinel runtime (sdk/starlight_sdk) *)
(* and of the bundled Sentinels built on it (sentinels/*.py).               *)
(*                                                                          *)
(* The module holds several specifications over one set of variables:       *)
(*   Spec         pre-check dispatch: the read loop turns every inbound     *)
(*                frame into its own task; the tasks run on_pre_check and   *)
(*                interleave at their await points.                         *)
(*   SaveSpec     SentinelBase._save_memory, step by step, with failures    *)
(*                and process kills.                                        *)
(*   RuntimeSpec  SentinelBase.start: connect, register, handshake, read    *)
(*                loop, heartbeat, reconnect, signals.  FairRuntimeSpec     *)
(*                adds the fairness the asyncio event loop provides.        *)
(* A variable that a specification does not use keeps its initial value.    *)
(***************************************************************************)
EXTENDS Integers, Sequences, FiniteSets, TLC

VARIABLES
    \* ---- pre-check dispatch (Spec) ----
    layer,      \* class of the running Sentinel (self.layer)
    cfg,        \* the parts of config.json the handlers read
    obj,        \* attributes of the Sentinel object the handlers read and write
    tasks,      \* tasks[i]: the _handle_protocol task of the i-th inbound frame,
                \* with the frames it has written to the websocket (out)
    active,     \* self._active_msg_id
    \* ---- _save_memory (SaveSpec) ----
    platform,       \* sys.platform, as far as os.rename depends on it
    memory,         \* generation of self.memory (the content to be saved)
    memory_file,    \* the file at self.memory_file
    temp_file,      \* the file at temp_path
    save_pc,        \* position inside _save_memory
    killed,         \* the process was killed
    prev,           \* memory_file as it was when _save_memory was called
    \* ---- start (RuntimeSpec, FairRuntimeSpec) ----
    rpc,            \* position of start()
    running,        \* self._running
    conn,           \* the connection of self._websocket
    registered,     \* self._registered.is_set()
    inbox,          \* frames the Hub has sent that the read loop has not read
    hb,             \* hb[c]: the heartbeat task created by the c-th attempt
    connects,       \* connection attempts started
    nframes,        \* frames the Hub has sent
    cr,             \* the challenges echoed in challenge_response frames
    saved,          \* _save_memory has been called by handle_shutdown or start
    \* ---- the Hub's Command Orchestrator, for one command (HubSpec) ----
    hstate,         \* the state of the command
    ready,          \* the Sentinels that were READY at the fan-out
    ledger,         \* the votes of this round, in arrival order
    elapsed,        \* the sync budget of this round has elapsed
    winner,         \* the Sentinel the command is HIJACKED for
    vetoes,         \* wait decisions taken for the command
    attempt,        \* re-checks asked for by a resume
    \* ---- the stealth driver's reader thread and main loop (DriverSpec) ----
    cmd_queue,      \* the PriorityQueue
    nread,          \* request lines the InputReader has queued
    reader,         \* the InputReader thread runs
    stop_event,     \* stop_event.is_set()
    is_running,     \* driver.is_running
    mpc,            \* position of main()
    cur,            \* the command main() has dequeued
    turns,          \* the commands main() has processed, with their outcome
    \* ---- _handle_protocol on one frame (ProtocolSpec) ----
    frame,          \* the decoded frame (data)
    handled,        \* _handle_protocol has run
    calls,          \* the hooks it has called, with their arguments
    \* ---- PulseSentinel's clock arithmetic (EntropySpec, WindowSpec) ----
    entropy_history,    \* self.entropy_history, in milliseconds
    nevents,            \* entropy events handled
    base_window,        \* sentinel.settlementWindow, in milliseconds
    stability_hint,     \* command.stabilityHint of the pre-check
    current_window,     \* current_window of on_pre_check, in milliseconds
    \* ---- PIISentinel.on_pre_check on one pre-check (RedactSpec) ----
    page_text,      \* params.page_text, as a sequence of tokens
    all_text,       \* all_text of on_pre_check when it is done with it
    detected_pii,   \* self.detected_pii
    pii_plan,       \* the awaits the handler still has to run
    pii_sent,       \* the frames the handler has sent
    \* ---- A11ySentinel.on_pre_check on one pre-check (A11ySpec) ----
    a11y_snapshot,  \* params.a11y_snapshot
    audit,          \* what the rules and the report did in this audit
    audit_count,    \* self.audit_count
    a11y_pc,        \* "new", "run" (suspended at an await), "done" (returned)
    a11y_plan,      \* the awaits the handler still has to run
    a11y_sent,      \* the frames the handler has sent
    \* ---- the memory file's content, saved and loaded (LoadSpec) ----
    json_file,      \* the file at self.memory_file, as JSON tokens
    saver,          \* self.memory of the Sentinel that saves
    loaded,         \* self.memory of the Sentinel that starts
    lpc,            \* how far the two Sentinels have got
    \* ---- the action helpers of the SDK (ActionSpec) ----
    websocket,      \* self._websocket is set
    helper_calls,   \* the helper calls made, each with the frames it sent
    \* ---- the driver's command queue as a heap (QueueSpec) ----
    pq_heap,        \* cmd_queue.queue, the list heapq keeps as a heap
    pq_read,        \* requests InputReader has put
    pq_taken,       \* the requests main() has got, in order
    \* ---- StealthSentinel's detections since the last navigation (StealthSpec) ----
    st_seen,        \* what each pre-check since then found and answered
    \* ---- what VisionSentinel has learned (VisionSpec) ----
    v_memory,       \* self.memory: obstacle -> selector ("-": no entry)
    v_file,         \* the content of the memory file
    v_last,         \* self.last_action
    v_event,        \* the frame the last handler that ran was given
    v_count,        \* handlers that have run
    \* ---- the task that handles starlight.shutdown (ShutdownSpec) ----
    sd_pc,          \* its position: "none", "created", "closing", "done"
    exited          \* the process has exited

dvars == <<layer, cfg, obj, tasks, active>>
svars == <<platform, memory, memory_file, temp_file, save_pc, killed, prev>>
rvars == <<rpc, running, conn, registered, inbox, hb, connects, nframes, cr, saved>>
hvars == <<hstate, ready, ledger, elapsed, winner, vetoes, attempt>>
\* the parts that the Sentinel-side specifications leave alone
kvars == <<cmd_queue, nread, reader, stop_event, is_running, mpc, cur, turns>>
pvars == <<frame, handled, calls>>
mvars == <<entropy_history, nevents, base_window, stability_hint, current_window>>
\* the parts added after the Sentinel runtime, the Hub and the driver
ivars == <<page_text, all_text, detected_pii, pii_plan, pii_sent>>
avars == <<a11y_snapshot, audit, audit_count, a11y_pc, a11y_plan, a11y_sent>>
lvars == <<json_file, saver, loaded, lpc>>
wvars == <<websocket, helper_calls>>
qvars == <<pq_heap, pq_read, pq_taken>>
tvars == <<st_seen>>
vvars == <<v_memory, v_file, v_last, v_event, v_count>>
zvars == <<sd_pc, exited>>
nvars == <<mvars, ivars, avars, lvars, wvars, qvars, tvars, vvars, zvars>>
\* the parts a specification of one of them leaves alone
notm == <<ivars, avars, lvars, wvars, qvars, tvars, vvars, zvars>>
noti == <<mvars, avars, lvars, wvars, qvars, tvars, vvars, zvars>>
nota == <<mvars, ivars, lvars, wvars, qvars, tvars, vvars, zvars>>
notl == <<mvars, ivars, avars, wvars, qvars, tvars, vvars, zvars>>
notw == <<mvars, ivars, avars, lvars, qvars, tvars, vvars, zvars>>
notq == <<mvars, ivars, avars, lvars, wvars, tvars, vvars, zvars>>
nott == <<mvars, ivars, avars, lvars, wvars, qvars, vvars, zvars>>
notv == <<mvars, ivars, avars, lvars, wvars, qvars, tvars, zvars>>
notz == <<mvars, ivars, avars, lvars, wvars, qvars, tvars, vvars>>
\* the parts before them
old == <<dvars, svars, rvars, hvars, kvars, pvars>>
xvars == <<hvars, kvars, pvars, nvars>>
\* what the Hub leaves alone
sentinel == <<dvars, svars, rvars, kvars, pvars, nvars>>
\* what the stealth driver leaves alone
nondriver == <<dvars, svars, rvars, hvars, pvars, nvars>>
vars == <<layer, cfg, obj, tasks, active,
          platform, memory, memory_file, temp_file, save_pc, killed, prev,
          rpc, running, conn, registered, inbox, hb, connects, nframes, cr, saved,
          hstate, ready, ledger, elapsed, winner, vetoes, attempt,
          cmd_queue, nread, reader, stop_event, is_running, mpc, cur, turns,
          frame, handled, calls,
          entropy_history, nevents, base_window, stability_hint, current_window,
          page_text, all_text, detected_pii, pii_plan, pii_sent,
          a11y_snapshot, audit, audit_count, a11y_pc, a11y_plan, a11y_sent,
          json_file, saver, loaded, lpc,
          websocket, helper_calls,
          pq_heap, pq_read, pq_taken,
          st_seen,
          v_memory, v_file, v_last, v_event, v_count,
          sd_pc, exited>>

-----------------------------------------------------------------------------
(* Bounds of the model.                                                    *)

\* pre-check frames the Hub sends in one behaviour
MaxPreChecks == 2

\* connection attempts of start() in one behaviour
MaxConnects == 2

-----------------------------------------------------------------------------
(* Wire ids.  Pre-check ids are 1, 2, ... (the Hub's correlation keys).     *)

\* None: the value of an absent msg_id argument and of a reset _active_msg_id
NoId == 0
\* an id _send_msg makes up from the clock when it is given none
TsId == -1

Layers ==
    {"PulseSentinel", "PIISentinel", "StealthSentinel", "VisionSentinel",
     "ResponsiveSentinel", "DataSentinel", "JanitorSentinel"}

\* the Sentinels that only vote (JanitorSentinel also remediates by itself)
VotingLayers == Layers \ {"JanitorSentinel"}

VoteMethods == {"clear", "wait", "hijack"}

\* the frames of a command's life cycle (context_update is telemetry)
LifecycleMethods == {"clear", "wait", "hijack", "action", "resume"}

\* One step of a handler between two awaits: optionally assign self.state,
\* then send one frame (or none), then suspend (or return).
\*   k   "vote"  send_clear / send_wait / send_hijack
\*       "send"  send_resume / send_action / update_context
\*       "wait"  an await that sends nothing (asyncio.sleep, an HTTP call)
\*       "ret"   the handler returns
\*   x   TRUE when the call passes msg_id=msg_id
\*   rc  the re_check argument of send_resume
\*   st  the value assigned to self.state in this step ("-": none)
\*   la  the value assigned to self.last_action in this step ("-": none;
\*       "None"; or the obstacle id of a record with known = True)
Op(k, m, x, rc, st) ==
    [k |-> k, m |-> m, x |-> x, rc |-> rc, st |-> st, la |-> "-"]
Vote(m) == Op("vote", m, FALSE, FALSE, "-")
VoteId(m) == Op("vote", m, TRUE, FALSE, "-")
Send(m) == Op("send", m, FALSE, FALSE, "-")
SendId(m) == Op("send", m, TRUE, FALSE, "-")
Resume(x, rc) == Op("send", "resume", x, rc, "-")
Sleep == Op("wait", "-", FALSE, FALSE, "-")
Ret == Op("ret", "-", FALSE, FALSE, "-")
WithState(op, st) == [op EXCEPT !.st = st]
WithLast(op, la) == [op EXCEPT !.la = la]

\* send_clear / send_wait / send_hijack: msg_id or self._active_msg_id
TargetId(msg_id, a) == IF msg_id # NoId THEN msg_id ELSE a

\* _send_msg: msg_id or str(int(time.time() * 1000))
FinalId(msg_id) == IF msg_id # NoId THEN msg_id ELSE TsId

\* the id of the frame that op sends when task p runs it while
\* self._active_msg_id = a
WireId(op, p, a) ==
    LET arg == IF op.x THEN p ELSE NoId
    IN  IF op.k = "vote" THEN FinalId(TargetId(arg, a)) ELSE FinalId(arg)

\* _format_message, plus whether the call named the id itself (x)
Frame(op, p, a) ==
    [m |-> op.m, id |-> WireId(op, p, a), x |-> op.x, rc |-> op.rc]

\* Task p runs the first op of ops with _active_msg_id = a and object o,
\* keeps the rest as its plan and suspends at pc (or is done).
RunSegOf(p, t, ops, a, o, pc) ==
    LET op == Head(ops)
        o1 == IF op.st # "-" THEN [o EXCEPT !.state = op.st] ELSE o
    IN  /\ obj' = IF op.la = "-" THEN o1
                  ELSE IF op.la = "None" THEN [o1 EXCEPT !.last_action = <<>>]
                  ELSE [o1 EXCEPT !.last_action = <<[id |-> op.la, known |-> TRUE]>>]
        /\ active' = IF op.k = "ret" THEN NoId ELSE a
        /\ tasks' = [tasks EXCEPT ![p] =
                        [t EXCEPT !.pc = IF op.k = "ret" THEN "done" ELSE pc,
                                  !.plan = Tail(ops),
                                  !.out = IF op.k \in {"vote", "send"}
                                          THEN Append(@, Frame(op, p, a)) ELSE @]]

RunSeg(p, ops, a, o, pc) == RunSegOf(p, tasks[p], ops, a, o, pc)

\* what a handler read of the environment when it decided its vote; only
\* PulseSentinel reads any: silence_duration >= current_window, the result
\* of _is_rhythmic_animation(), and whether veto_count, after the
\* new-command reset, had reached the cap
NothingSeen == [settled |-> FALSE, rhythmic |-> FALSE, capped |-> FALSE]

-----------------------------------------------------------------------------
(* Pre-check payloads, reduced to what each on_pre_check reads.             *)

\* One element of params.blocking as JanitorSentinel.on_pre_check sees it:
\*   pat    "none": no blocking pattern occurs in its id/class;
\*          "generic": the first one that does is .modal/.popup/#overlay;
\*          "specific": the first one that does is any other pattern
\*   tag    tagName
\*   small  targetRect and rect are given and rect is below 500x500
\*   sel    its selector (the obstacle id)
Elem(pat, tag, small, sel) == [pat |-> pat, tag |-> tag, small |-> small, sel |-> sel]

BlockingLists ==
    { <<>>,
      <<Elem("none", "DIV", FALSE, "o1"), Elem("specific", "INPUT", FALSE, "o1"),
        Elem("generic", "DIV", TRUE, "o2")>>,
      <<Elem("specific", "DIV", FALSE, "o1")>>,
      <<Elem("generic", "DIV", TRUE, "o1"), Elem("generic", "DIV", FALSE, "o2")>> }

ParamsOf(l) ==
    CASE l = "VisionSentinel" -> [screenshot : BOOLEAN]
      [] l = "DataSentinel" -> [meaningful : BOOLEAN]
      [] l = "ResponsiveSentinel" -> [mobile : BOOLEAN, blocker : BOOLEAN]
      [] l = "StealthSentinel" -> [text : {"none", "plain", "bot", "challenge"}]
      [] l = "PIISentinel" -> [text : {"none", "clean", "pii"}]
      [] l = "PulseSentinel" -> [cmd : {"a", "b"}]
      [] l = "JanitorSentinel" ->
            [goal : {"-"}, inv : {"none"}, blocking : BlockingLists]
            \cup [goal : {"site_recovery"}, inv : {"none", "unmapped", "mapped"},
                  blocking : {<<>>}]

-----------------------------------------------------------------------------
(* The Hub sends starlight.pre_check; start() creates a task for it         *)
(* (asyncio.create_task(self._handle_protocol(data))).  The i-th pre-check  *)
(* carries id i.                                                            *)

HubPreCheck(par) ==
    /\ Len(tasks) < MaxPreChecks
    /\ tasks' = Append(tasks, [pc |-> "new", par |-> par, plan |-> <<>>, left |-> 0,
                               out |-> <<>>, seen |-> NothingSeen])
    /\ UNCHANGED <<layer, cfg, obj, active, svars, rvars, xvars>>

\* The Hub echoes the outcome of a forwarded action to JanitorSentinel as a
\* COMMAND_COMPLETE side message; start() creates a task for it as well.
HubCommandComplete(success) ==
    /\ layer = "JanitorSentinel"
    /\ Len(tasks) < MaxPreChecks
    /\ tasks' = Append(tasks, [pc |-> "new",
                               par |-> [type |-> "COMMAND_COMPLETE", success |-> success],
                               plan |-> <<>>, left |-> 0, out |-> <<>>,
                               seen |-> NothingSeen])
    /\ UNCHANGED <<layer, cfg, obj, active, svars, rvars, xvars>>

\* the tasks that handle a starlight.pre_check
IsPreCheck(p) == "type" \notin DOMAIN tasks[p].par

PreChecks == { p \in DOMAIN tasks : IsPreCheck(p) }

\* A task resumes after an await and runs the next step of its plan; the
\* last step returns from on_pre_check, and _handle_protocol's finally
\* resets _active_msg_id.
TaskStep(p) ==
    /\ tasks[p].pc = "run"
    /\ RunSeg(p, tasks[p].plan, active, obj, "run")
    /\ UNCHANGED <<layer, cfg, svars, rvars, xvars>>

-----------------------------------------------------------------------------
(* VisionSentinel.on_pre_check                                              *)

\* outcome of analyze_screenshot: a keyword, None, or None after an error
\* that was reported with update_context
VisionPlan(outcome) ==
    IF outcome = "obstacle"
    THEN <<Vote("hijack"), Send("action"), Sleep, Resume(FALSE, TRUE), Ret>>
    ELSE IF outcome = "error"
    THEN <<Send("context_update"), Vote("clear"), Ret>>
    ELSE <<Vote("clear"), Ret>>

VisionStart(p) ==
    /\ layer = "VisionSentinel"
    /\ tasks[p].pc = "new"
    /\ IF tasks[p].par.screenshot
       THEN RunSeg(p, <<Sleep>>, p, obj, "analyze")
       ELSE RunSeg(p, <<Vote("clear"), Ret>>, p, obj, "run")
    /\ UNCHANGED <<layer, cfg, svars, rvars, xvars>>

VisionAnalyzed(p, outcome) ==
    /\ layer = "VisionSentinel"
    /\ tasks[p].pc = "analyze"
    /\ RunSeg(p, VisionPlan(outcome), active, obj, "run")
    /\ UNCHANGED <<layer, cfg, svars, rvars, xvars>>

-----------------------------------------------------------------------------
(* DataSentinel.on_pre_check                                                *)

DataPlan(par) ==
    IF par.meaningful
    THEN <<Send("context_update"), VoteId("clear"), Ret>>
    ELSE <<VoteId("clear"), Ret>>

DataStart(p) ==
    /\ layer = "DataSentinel"
    /\ tasks[p].pc = "new"
    /\ RunSeg(p, DataPlan(tasks[p].par), p, obj, "run")
    /\ UNCHANGED <<layer, cfg, svars, rvars, xvars>>

-----------------------------------------------------------------------------
(* ResponsiveSentinel.on_pre_check                                          *)

\* _try_close_blocker returns True after its first send_action: _send_msg
\* swallows every exception, so the except branch never runs and the
\* evaluate action of on_pre_check is never sent.
ResponsivePlan(par) ==
    IF par.mobile /\ par.blocker
    THEN <<Vote("hijack"), Send("action"), Sleep, Resume(FALSE, TRUE), Ret>>
    ELSE <<Vote("clear"), Ret>>

ResponsiveStart(p) ==
    /\ layer = "ResponsiveSentinel"
    /\ tasks[p].pc = "new"
    /\ RunSeg(p, ResponsivePlan(tasks[p].par), p, obj, "run")
    /\ UNCHANGED <<layer, cfg, svars, rvars, xvars>>

-----------------------------------------------------------------------------
(* StealthSentinel.on_pre_check                                             *)

\* detections after which a challenge is no longer waited out
StealthMaxWaits == 3

\* _detect_anti_bot finds a signature
StealthDetected(text) == text \in {"bot", "challenge"}

\* _is_waiting_challenge
StealthIsChallenge(text) == text = "challenge"

\* the plan, were a challenge waited out however often it was detected
StealthPlanNoCap(text, count) ==
    IF ~StealthDetected(text)
    THEN <<Vote("clear"), Ret>>
    ELSE IF StealthIsChallenge(text)
    THEN <<Vote("hijack"), Sleep, Resume(FALSE, TRUE), Ret>>
    ELSE <<Send("context_update"), Vote("clear"), Ret>>

\* the plan, given the page text and detection_count after its increment
StealthPlan(text, count) ==
    IF ~StealthDetected(text)
    THEN <<Vote("clear"), Ret>>
    ELSE IF StealthIsChallenge(text) /\ count <= StealthMaxWaits
    THEN <<Vote("hijack"), Sleep, Resume(FALSE, TRUE), Ret>>
    ELSE <<Send("context_update"), Vote("clear"), Ret>>

StealthStart(p) ==
    /\ layer = "StealthSentinel"
    /\ tasks[p].pc = "new"
    /\ LET text == tasks[p].par.text
           count == IF StealthDetected(text)
                    THEN obj.detection_count + 1 ELSE obj.detection_count
       IN  RunSeg(p, StealthPlan(text, count), p,
                  [obj EXCEPT !.detection_count = count], "run")
    /\ UNCHANGED <<layer, cfg, svars, rvars, xvars>>

-----------------------------------------------------------------------------
(* PIISentinel.on_pre_check                                                 *)

PIIPlan(text, mode) ==
    IF text = "pii" /\ mode = "block"
    THEN <<Vote("hijack"), Send("context_update"), Sleep, Resume(FALSE, FALSE), Ret>>
    ELSE IF text = "pii" /\ mode = "alert"
    THEN <<Send("context_update"), Vote("clear"), Ret>>
    ELSE <<Vote("clear"), Ret>>

PIIStart(p) ==
    /\ layer = "PIISentinel"
    /\ tasks[p].pc = "new"
    /\ RunSeg(p, PIIPlan(tasks[p].par.text, cfg.mode), p, obj, "run")
    /\ UNCHANGED <<layer, cfg, svars, rvars, xvars>>

-----------------------------------------------------------------------------
(* PulseSentinel.on_pre_check                                               *)

\* sentinel.maxVetoCount
MaxVetoCount == 3

\* a cap test that lets one more wait through
VetoCapReachedLate(count) == count > MaxVetoCount

\* elif self.veto_count >= self.max_veto_count
VetoCapReached(count) == count >= MaxVetoCount

PulseStart(p) ==
    /\ layer = "PulseSentinel"
    /\ tasks[p].pc = "new"
    /\ RunSeg(p, <<WithState(Send("context_update"), "ANALYZING")>>, p, obj, "eval")
    /\ UNCHANGED <<layer, cfg, svars, rvars, xvars>>

\* The handler resumes after its first _emit_telemetry.  settled:
\* silence_duration >= current_window; rhythmic: _is_rhythmic_animation().
PulseEval(p, settled, rhythmic) ==
    /\ layer = "PulseSentinel"
    /\ tasks[p].pc = "eval"
    /\ LET cmd == tasks[p].par.cmd
           o1 == IF cmd # obj.current_command_id
                 THEN [obj EXCEPT !.veto_count = 0, !.current_command_id = cmd]
                 ELSE obj
           o2 == IF settled \/ rhythmic THEN [o1 EXCEPT !.state = "CLEARED"] ELSE o1
           t  == [tasks[p] EXCEPT !.seen = [settled |-> settled, rhythmic |-> rhythmic,
                                            capped |-> VetoCapReached(o1.veto_count)]]
       IN  IF o2.state = "CLEARED"
           THEN RunSegOf(p, t, <<Send("context_update"), Vote("clear"), Ret>>, active,
                         [o2 EXCEPT !.veto_count = 0], "run")
           ELSE IF VetoCapReached(o2.veto_count)
           THEN RunSegOf(p, t, <<WithState(Vote("clear"), "CLEARED"), Ret>>, active,
                         [o2 EXCEPT !.veto_count = 0], "run")
           ELSE RunSegOf(p, t, <<WithState(Send("context_update"), "VETOING"),
                                 Vote("wait"), Ret>>, active,
                         [o2 EXCEPT !.veto_count = @ + 1], "run")
    /\ UNCHANGED <<layer, cfg, svars, rvars, xvars>>

-----------------------------------------------------------------------------
(* JanitorSentinel                                                          *)

\* selectors tried by one heuristic remediation (fallback_selectors has 29
\* entries; site recovery tries 4 strategies per target)
MaxHeuristics == 2

\* remediations of one obstacle in a row before on_pre_check gives up
JanitorMaxClears == 2

IgnoredTags == {"INPUT", "SELECT", "TEXTAREA", "OPTION", "LABEL"}

\* the element passes the filters of the for loop in on_pre_check
Qualifies(b) ==
    /\ b.pat # "none"
    /\ b.tag \notin IgnoredTags
    /\ ~(b.pat = "generic" /\ b.small)

\* the obstacle on_pre_check acts on: the first element that qualifies
RECURSIVE FirstObstacle(_)
FirstObstacle(blocking) ==
    IF blocking = <<>> THEN "none"
    ELSE IF Qualifies(Head(blocking)) THEN Head(blocking).sel
    ELSE FirstObstacle(Tail(blocking))

RECURSIVE Repeat(_, _)
Repeat(ops, n) == IF n = 0 THEN <<>> ELSE ops \o Repeat(ops, n - 1)

\* a remediation that returns without its send_resume
RemediationPlanNoResume(o, ob) ==
    <<WithState(Send("context_update"), "HIJACKING"), VoteId("hijack"),
      SendId("action"), WithState(Ret, "IDLE")>>

\* perform_remediation, from its first statement on.  The sleeps that follow
\* a send are part of the send's step: nothing is assigned between the two
\* awaits.
\* best_action = self.memory.get(obstacle_id) is set for the obstacles in
\* o.memory.  The predictive path records last_action after its one action;
\* the heuristic path ends its loop with self.last_action = None and then
\* sleeps remediation_delay.
RemediationPlan(o, ob) ==
    IF o.state = "HIJACKING" THEN <<Ret>>
    ELSE <<WithState(Send("context_update"), "HIJACKING"), VoteId("hijack")>>
         \o (IF ob \in o.memory THEN <<WithLast(SendId("action"), ob)>>
             ELSE Repeat(<<SendId("action")>>, MaxHeuristics)
                  \o <<WithLast(Sleep, "None")>>)
         \o <<Resume(TRUE, TRUE),
              WithState(Send("context_update"), "RESUMED"),
              WithState(Ret, "IDLE")>>

\* the deduplication gives up: this obstacle was the last one remediated
\* and self._clear_count > 2
GivesUpNever(o, ob) == FALSE

GivesUp(o, ob) == o.last_cleared = ob /\ o.clear_count > JanitorMaxClears

JanitorStart(p) ==
    /\ layer = "JanitorSentinel"
    /\ tasks[p].pc = "new"
    /\ IsPreCheck(p)
    /\ LET par == tasks[p].par
           o0 == [obj EXCEPT !.state = "ANALYZING"]
           ob == FirstObstacle(par.blocking)
       IN  IF par.goal = "site_recovery"
           THEN \* handle_site_recovery
                IF par.inv = "none"
                THEN RunSeg(p, <<VoteId("clear"), Ret>>, p, o0, "run")
                ELSE IF par.inv = "unmapped"
                THEN RunSeg(p, <<WithState(VoteId("hijack"), "HIJACKING"),
                                 Resume(TRUE, TRUE), WithState(Ret, "IDLE")>>, p,
                            [o0 EXCEPT !.recovery_successful = FALSE], "run")
                ELSE /\ obj' = [o0 EXCEPT !.state = "HIJACKING",
                                          !.recovery_successful = FALSE]
                     /\ active' = p
                     /\ tasks' = [tasks EXCEPT ![p] =
                                    [@ EXCEPT !.pc = "recover", !.left = MaxHeuristics,
                                              !.out = Append(@, Frame(VoteId("hijack"), p, p))]]
           ELSE IF ob = "none"
           THEN RunSeg(p, <<WithState(VoteId("clear"), "IDLE"), Ret>>, p, o0, "run")
           ELSE IF GivesUp(o0, ob)
           THEN RunSeg(p, <<Vote("clear"), Ret>>, p, o0, "run")
           ELSE LET o1 == IF o0.last_cleared = ob
                          THEN [o0 EXCEPT !.clear_count = @ + 1]
                          ELSE [o0 EXCEPT !.last_cleared = ob, !.clear_count = 1]
                IN  RunSeg(p, RemediationPlan(o1, ob), p, o1, "run")
    /\ UNCHANGED <<layer, cfg, svars, rvars, xvars>>

\* One turn of the strategy loop of handle_site_recovery, or its end.
JanitorRecover(p) ==
    /\ layer = "JanitorSentinel"
    /\ tasks[p].pc = "recover"
    /\ IF obj.recovery_successful \/ tasks[p].left = 0
       THEN RunSeg(p, <<Resume(TRUE, TRUE), WithState(Ret, "IDLE")>>,
                   active, obj, "run")
       ELSE /\ tasks' = [tasks EXCEPT ![p] =
                            [@ EXCEPT !.left = @ - 1,
                                      !.out = Append(@, Frame(SendId("action"), p, active))]]
            /\ UNCHANGED <<obj, active>>
    /\ UNCHANGED <<layer, cfg, svars, rvars, xvars>>

\* JanitorSentinel.on_message for a frame whose params.type is
\* COMMAND_COMPLETE; it has no await.  _save_memory writes self.memory out.
JanitorOnMessage(p) ==
    /\ layer = "JanitorSentinel"
    /\ tasks[p].pc = "new"
    /\ ~IsPreCheck(p)
    /\ LET success == tasks[p].par.success
           o1 == IF obj.state = "HIJACKING" /\ success
                 THEN [obj EXCEPT !.recovery_successful = TRUE] ELSE obj
           o2 == IF o1.last_action = <<>> THEN o1
                 ELSE LET la == o1.last_action[1]
                          o3 == IF success /\ ~la.known /\ la.id \notin o1.memory
                                THEN [o1 EXCEPT !.memory = @ \cup {la.id},
                                                !.saved_memory = o1.memory \cup {la.id}]
                                ELSE o1
                      IN  [o3 EXCEPT !.last_action = <<>>]
       IN  /\ obj' = o2
           /\ tasks' = [tasks EXCEPT ![p].pc = "done"]
    /\ UNCHANGED <<layer, cfg, active, svars, rvars, xvars>>

-----------------------------------------------------------------------------

\* the attributes a Sentinel object has after __init__, or after earlier
\* pre-checks have been handled to the end
ObjInit(l) ==
    LET fresh == [state |-> "IDLE", veto_count |-> 0, current_command_id |-> "-",
                  detection_count |-> 0, last_cleared |-> "-", clear_count |-> 0,
                  memory |-> {}, recovery_successful |-> FALSE,
                  last_action |-> <<>>, saved_memory |-> {}]
    IN  CASE l = "PulseSentinel" ->
                { fresh,
                  [fresh EXCEPT !.state = "VETOING", !.veto_count = MaxVetoCount,
                                !.current_command_id = "a"] }
          [] l = "StealthSentinel" ->
                { fresh, [fresh EXCEPT !.detection_count = StealthMaxWaits] }
          [] l = "JanitorSentinel" ->
                { fresh,
                  [fresh EXCEPT !.memory = {"o1"}, !.saved_memory = {"o1"},
                                !.last_cleared = "o2",
                                !.clear_count = JanitorMaxClears + 1],
                  [fresh EXCEPT !.last_cleared = "o2",
                                !.clear_count = JanitorMaxClears] }
          [] OTHER -> { fresh }

\* the values of the variables of a part that a specification leaves alone
DispatchIdle ==
    /\ layer = "DataSentinel"
    /\ cfg = [mode |-> "alert"]
    /\ obj \in ObjInit("DataSentinel")
    /\ tasks = <<>>
    /\ active = NoId

SaveIdle ==
    /\ platform = "posix"
    /\ memory = 0
    /\ memory_file = [exists |-> FALSE, data |-> <<>>]
    /\ temp_file = [exists |-> FALSE, data |-> <<>>]
    /\ save_pc = "idle"
    /\ killed = FALSE
    /\ prev = [exists |-> FALSE, data |-> <<>>]

HubIdle ==
    /\ hstate = "QUEUED"
    /\ ready = {}
    /\ ledger = <<>>
    /\ elapsed = FALSE
    /\ winner = "none"
    /\ vetoes = 0
    /\ attempt = 0

\* no request has been read
NoCommand == [id |-> 0, method |-> "-", params |-> "object"]

DriverIdle ==
    /\ cmd_queue = <<>>
    /\ nread = 0
    /\ reader = TRUE
    /\ stop_event = FALSE
    /\ is_running = TRUE
    /\ mpc = "get"
    /\ cur = NoCommand
    /\ turns = <<>>

\* a frame with no member at all
NoData == [method |-> "-", params |-> "-", id |-> 0]

ProtocolIdle ==
    /\ frame = NoData
    /\ handled = FALSE
    /\ calls = <<>>

\* no entropy event has arrived and no window has been computed; None is -1
EntropyIdle ==
    /\ entropy_history = <<>>
    /\ nevents = 0
    /\ base_window = 500
    /\ stability_hint = 0
    /\ current_window = -1

\* no pre-check has reached PIISentinel
RedactIdle ==
    /\ page_text = <<>>
    /\ all_text = <<>>
    /\ detected_pii = <<>>
    /\ pii_plan = <<>>
    /\ pii_sent = <<>>

\* no pre-check has reached A11ySentinel
NoAudit == [rules |-> <<>>, report |-> "-"]

A11yIdle ==
    /\ a11y_snapshot = "absent"
    /\ audit = NoAudit
    /\ audit_count = 0
    /\ a11y_pc = "new"
    /\ a11y_plan = <<>>
    /\ a11y_sent = <<>>

\* no memory file, and two Sentinels after __init__ (self.memory = {})
LoadIdle ==
    /\ json_file = [exists |-> FALSE, text |-> <<>>]
    /\ saver = <<>>
    /\ loaded = <<>>
    /\ lpc = "init"

\* no helper has been called
ActionIdle ==
    /\ websocket = TRUE
    /\ helper_calls = <<>>

\* an empty queue.PriorityQueue
QueueIdle ==
    /\ pq_heap = <<>>
    /\ pq_read = 0
    /\ pq_taken = <<>>

\* no pre-check has reached StealthSentinel since the last navigation
StealthIdle == st_seen = <<>>

\* VisionSentinel after __init__: nothing learned, no last action
NoAction == [id |-> "-", selector |-> "-"]

VisionIdle ==
    /\ v_memory = [o \in {"popup", "modal"} |-> "-"]
    /\ v_file = [o \in {"popup", "modal"} |-> "-"]
    /\ v_last = NoAction
    /\ v_event = [type |-> "-", success |-> FALSE]
    /\ v_count = 0

\* no starlight.shutdown has been read
ShutdownIdle ==
    /\ sd_pc = "none"
    /\ exited = FALSE

MoreIdle ==
    /\ EntropyIdle
    /\ RedactIdle
    /\ A11yIdle
    /\ LoadIdle
    /\ ActionIdle
    /\ QueueIdle
    /\ StealthIdle
    /\ VisionIdle
    /\ ShutdownIdle

ExtIdle == HubIdle /\ DriverIdle /\ ProtocolIdle /\ MoreIdle

RuntimeIdle ==
    /\ rpc = "loop"
    /\ running = TRUE
    /\ conn = "none"
    /\ registered = FALSE
    /\ inbox = <<>>
    /\ hb = [c \in 1..MaxConnects |-> "none"]
    /\ connects = 0
    /\ nframes = 0
    /\ cr = <<>>
    /\ saved = FALSE

\* the parts before them
OldIdle == SaveIdle /\ RuntimeIdle /\ HubIdle /\ DriverIdle /\ ProtocolIdle

IdleButT ==
    /\ OldIdle
    /\ EntropyIdle
    /\ RedactIdle
    /\ A11yIdle
    /\ LoadIdle
    /\ ActionIdle
    /\ QueueIdle
    /\ VisionIdle
    /\ ShutdownIdle
IdleButV ==
    /\ OldIdle
    /\ EntropyIdle
    /\ RedactIdle
    /\ A11yIdle
    /\ LoadIdle
    /\ ActionIdle
    /\ QueueIdle
    /\ StealthIdle
    /\ ShutdownIdle
IdleButZ ==
    /\ OldIdle
    /\ EntropyIdle
    /\ RedactIdle
    /\ A11yIdle
    /\ LoadIdle
    /\ ActionIdle
    /\ QueueIdle
    /\ StealthIdle
    /\ VisionIdle
IdleButM ==
    /\ OldIdle
    /\ RedactIdle
    /\ A11yIdle
    /\ LoadIdle
    /\ ActionIdle
    /\ QueueIdle
    /\ StealthIdle
    /\ VisionIdle
    /\ ShutdownIdle
IdleButI ==
    /\ OldIdle
    /\ EntropyIdle
    /\ A11yIdle
    /\ LoadIdle
    /\ ActionIdle
    /\ QueueIdle
    /\ StealthIdle
    /\ VisionIdle
    /\ ShutdownIdle
IdleButA ==
    /\ OldIdle
    /\ EntropyIdle
    /\ RedactIdle
    /\ LoadIdle
    /\ ActionIdle
    /\ QueueIdle
    /\ StealthIdle
    /\ VisionIdle
    /\ ShutdownIdle
IdleButL ==
    /\ OldIdle
    /\ EntropyIdle
    /\ RedactIdle
    /\ A11yIdle
    /\ ActionIdle
    /\ QueueIdle
    /\ StealthIdle
    /\ VisionIdle
    /\ ShutdownIdle
IdleButQ ==
    /\ OldIdle
    /\ EntropyIdle
    /\ RedactIdle
    /\ A11yIdle
    /\ LoadIdle
    /\ ActionIdle
    /\ StealthIdle
    /\ VisionIdle
    /\ ShutdownIdle
IdleButW ==
    /\ OldIdle
    /\ EntropyIdle
    /\ RedactIdle
    /\ A11yIdle
    /\ LoadIdle
    /\ QueueIdle
    /\ StealthIdle
    /\ VisionIdle
    /\ ShutdownIdle

Init ==
    /\ SaveIdle
    /\ ExtIdle
    /\ RuntimeIdle
    /\ layer \in Layers
    /\ cfg \in [mode : IF layer = "PIISentinel" THEN {"alert", "block", "redact"}
                                               ELSE {"alert"}]
    /\ obj \in ObjInit(layer)
    /\ tasks = <<>>
    /\ active = NoId

Next ==
    \/ \E par \in ParamsOf(layer) : HubPreCheck(par)
    \/ \E p \in DOMAIN tasks : TaskStep(p)
    \/ \E p \in DOMAIN tasks : VisionStart(p)
    \/ \E p \in DOMAIN tasks, o \in {"obstacle", "none", "error"} : VisionAnalyzed(p, o)
    \/ \E p \in DOMAIN tasks : DataStart(p)
    \/ \E p \in DOMAIN tasks : ResponsiveStart(p)
    \/ \E p \in DOMAIN tasks : StealthStart(p)
    \/ \E p \in DOMAIN tasks : PIIStart(p)
    \/ \E p \in DOMAIN tasks : PulseStart(p)
    \/ \E p \in DOMAIN tasks, s \in BOOLEAN, r \in BOOLEAN :
          \* the rhythm test is read only when the silence is too short
          (s => ~r) /\ PulseEval(p, s, r)
    \/ \E p \in DOMAIN tasks : JanitorStart(p)
    \/ \E p \in DOMAIN tasks : JanitorRecover(p)
    \/ \E ok \in BOOLEAN : HubCommandComplete(ok)
    \/ \E p \in DOMAIN tasks : JanitorOnMessage(p)

Spec == Init /\ [][Next]_vars

-----------------------------------------------------------------------------
(* Properties of the pre-check dispatch (Spec).                             *)

\* the frames task p has sent whose method is in ms
FramesOf(p, ms) == SelectSeq(tasks[p].out, LAMBDA f : f.m \in ms)

\* the positions <<q, i>> of the vote frames on the wire that carry id
VotesFor(id) ==
    UNION { { <<q, i>> : i \in { j \in DOMAIN tasks[q].out :
                                   /\ tasks[q].out[j].m \in VoteMethods
                                   /\ tasks[q].out[j].id = id } } :
            q \in DOMAIN tasks }

\* the tasks that have sent their hijack and not yet a resume
OpenHijacks ==
    { p \in PreChecks : /\ FramesOf(p, {"hijack"}) # <<>>
                           /\ FramesOf(p, {"resume"}) = <<>> }

\* C1: a send_clear, send_wait or send_hijack that the handler of pre-check P
\* calls without msg_id sends a frame whose id is P, whatever the other
\* handler tasks do in between.
C1_ImplicitVoteCarriesOwnId ==
    \A p \in PreChecks : \A i \in DOMAIN tasks[p].out :
        LET f == tasks[p].out[i]
        IN  (f.m \in VoteMethods /\ ~f.x) => f.id = p

\* C2: JanitorSentinel has at most one remediation open: it sends no second
\* hijack before the resume of the first.
C2_NoSecondHijackBeforeResume ==
    layer = "JanitorSentinel" => Cardinality(OpenHijacks) <= 1

\* C9: once a voting Sentinel has handled pre-check P to the end, the wire
\* holds exactly one vote frame with P's id, and at no time both a clear and
\* a hijack with P's id.
C9_ExactlyOneVotePerPreCheck ==
    layer \in VotingLayers =>
        \A p \in PreChecks :
            /\ tasks[p].pc = "done" => Cardinality(VotesFor(p)) = 1
            /\ ~ \E v, w \in VotesFor(p) :
                    /\ tasks[v[1]].out[v[2]].m = "clear"
                    /\ tasks[w[1]].out[w[2]].m = "hijack"

\* fs is a beginning of <<clear>> or of <<hijack, action, ..., action,
\* resume(re_check = true)>>, and all of it when complete is TRUE
JanitorShape(fs, complete) ==
    /\ fs # <<>> =>
          \/ fs[1].m = "clear" /\ Len(fs) = 1
          \/ /\ fs[1].m = "hijack"
             /\ \A i \in 2..Len(fs) :
                    \/ fs[i].m = "action"
                    \/ i = Len(fs) /\ fs[i].m = "resume" /\ fs[i].rc
    /\ complete =>
          /\ fs # <<>>
          /\ fs[1].m = "hijack" => fs[Len(fs)].m = "resume"

\* the life-cycle frames of every Janitor pre-check carry its id and have
\* the shape above
JanitorFramesWellFormed ==
    \A p \in PreChecks :
        LET fs == FramesOf(p, LifecycleMethods)
        IN  /\ \A i \in DOMAIN fs : fs[i].id = p
            /\ JanitorShape(fs, tasks[p].pc = "done")

\* C10, as stated: the frames JanitorSentinel sends for a pre-check are a
\* single clear, or one hijack, then actions, then exactly one resume with
\* re_check = true, and a pre-check with an empty blocking list yields the
\* clear.
C10_AsStated ==
    layer = "JanitorSentinel" =>
        /\ JanitorFramesWellFormed
        /\ \A p \in PreChecks :
              tasks[p].par.blocking = <<>> => FramesOf(p, {"hijack"}) = <<>>

\* C10, amended: the same shape over an open connection, and a pre-check with
\* an empty blocking list whose goal is not site_recovery yields the clear.
C10_JanitorLifecycle ==
    layer = "JanitorSentinel" =>
        /\ JanitorFramesWellFormed
        /\ \A p \in PreChecks :
              (tasks[p].par.blocking = <<>> /\ tasks[p].par.goal # "site_recovery")
                  => /\ FramesOf(p, {"hijack"}) = <<>>
                     /\ tasks[p].pc = "done" => Len(FramesOf(p, {"clear"})) = 1

\* a finished remediation with an action, next to a finished pre-check with
\* an empty blocking list that was cleared
C10_Witness ==
    /\ layer = "JanitorSentinel"
    /\ \E p, q \in PreChecks :
          /\ tasks[p].pc = "done"
          /\ FramesOf(p, {"action"}) # <<>>
          /\ FramesOf(p, {"resume"}) # <<>>
          /\ tasks[q].pc = "done"
          /\ tasks[q].par.blocking = <<>>
          /\ tasks[q].par.goal # "site_recovery"
          /\ Len(FramesOf(q, {"clear"})) = 1

------------------------------------------------------------------------\* a Pulse handler that has evaluated stability and chosen its vote
PulseDecided(p) == tasks[p].pc \in {"run", "done"}

\* the vote it chose: sent already, or still ahead in its plan
PulseVote(p) ==
    IF \/ \E i \in DOMAIN tasks[p].out : tasks[p].out[i].m = "wait"
       \/ \E i \in DOMAIN tasks[p].plan : tasks[p].plan[i].m = "wait"
    THEN "wait" ELSE "clear"

\* the step in which handler p evaluates stability
PulseDecides(p) == tasks[p].pc = "eval" /\ tasks'[p].pc \in {"run", "done"}

\* C11: for one command PulseSentinel answers at most maxVetoCount
\* pre-checks in a row with wait: it chooses wait only while the veto count
\* of the command is below maxVetoCount, and the wait raises the count by
\* one; at the cap the vote is clear (also when the environment is still
\* unsettled) and the count restarts from zero.
C11_VetoCap ==
    /\ [](layer = "PulseSentinel" => obj.veto_count <= MaxVetoCount)
    /\ [][ layer = "PulseSentinel" =>
            \A p \in DOMAIN tasks :
                PulseDecides(p) =>
                    LET count == IF tasks[p].par.cmd = obj.current_command_id
                                 THEN obj.veto_count ELSE 0
                        vote  == IF \E i \in DOMAIN tasks'[p].plan :
                                        tasks'[p].plan[i].m = "wait"
                                 THEN "wait" ELSE "clear"
                    IN  /\ vote = "wait" =>
                            count < MaxVetoCount /\ obj'.veto_count = count + 1
                        /\ count >= MaxVetoCount =>
                            vote = "clear" /\ obj'.veto_count = 0 ]_vars

\* a pre-check of command "a" arrived at the cap while the environment was
\* unsettled and was force-cleared, and the next one of "a" counted from zero
C11_Witness ==
    /\ layer = "PulseSentinel"
    /\ Len(tasks) >= 2
    /\ tasks[1].pc = "done" /\ tasks[2].pc = "done"
    /\ tasks[1].par.cmd = tasks[2].par.cmd
    /\ tasks[1].seen = [settled |-> FALSE, rhythmic |-> FALSE, capped |-> TRUE]
    /\ Len(tasks[1].out) = 2 /\ tasks[1].out[2].m = "clear"
    /\ tasks[2].seen = [settled |-> FALSE, rhythmic |-> FALSE, capped |-> FALSE]
    /\ PulseVote(2) = "wait"
    /\ obj.veto_count = 1

\* C12: PulseSentinel votes clear when the silence since the last entropy
\* event is at least the settlement window, and votes wait when it is
\* shorter, the entropy is not rhythmic and the veto cap is not reached.
C12_AsStated ==
    layer = "PulseSentinel" =>
        \A p \in DOMAIN tasks :
            PulseDecided(p) =>
                /\ tasks[p].seen.settled => PulseVote(p) = "clear"
                /\ ( /\ ~tasks[p].seen.settled
                     /\ ~tasks[p].seen.rhythmic
                     /\ ~tasks[p].seen.capped ) => PulseVote(p) = "wait"

\* C33: PulseSentinel sends clear for a pre-check only if, when that
\* pre-check is evaluated, the silence is at least the window, or the
\* entropy is rhythmic, or the veto cap has been reached, however the
\* handlers interleave at their await points.
C33_AsStated ==
    layer = "PulseSentinel" =>
        \A p \in DOMAIN tasks :
            (PulseDecided(p) /\ PulseVote(p) = "clear") =>
                \/ tasks[p].seen.settled
                \/ tasks[p].seen.rhythmic
                \/ tasks[p].seen.capped

\* handler t has sent a hijack, or has one ahead in its plan
JanitorHijacks(t) ==
    \/ \E i \in DOMAIN t.out : t.out[i].m = "hijack"
    \/ \E i \in DOMAIN t.plan : t.plan[i].m = "hijack"

\* handler t has sent a clear, or has one ahead in its plan
JanitorClears(t) ==
    \/ \E i \in DOMAIN t.out : t.out[i].m = "clear"
    \/ \E i \in DOMAIN t.plan : t.plan[i].m = "clear"

\* on_pre_check of pre-check p runs, for obstacle ob
JanitorActsOn(p, ob) ==
    /\ layer = "JanitorSentinel"
    /\ IsPreCheck(p)
    /\ tasks[p].pc = "new" /\ tasks'[p].pc # "new"
    /\ tasks[p].par.goal # "site_recovery"
    /\ ob = FirstObstacle(tasks[p].par.blocking)
    /\ ob # "none"

\* C34: while pre-checks keep reporting the same obstacle JanitorSentinel
\* remediates it at most 3 times (each remediation is counted, the count
\* never passes 3), then votes clear without a hijack, and goes on doing so
\* until it has remediated a different obstacle.
C34_ThreeThenClear ==
    /\ [](layer = "JanitorSentinel" => obj.clear_count <= 3)
    /\ [][\A p \in DOMAIN tasks : \A ob \in {"o1", "o2"} :
            JanitorActsOn(p, ob) =>
                IF obj.last_cleared = ob /\ obj.clear_count = 3
                THEN /\ ~JanitorHijacks(tasks'[p])
                     /\ JanitorClears(tasks'[p])
                     /\ obj'.last_cleared = ob /\ obj'.clear_count = 3
                ELSE /\ JanitorHijacks(tasks'[p])
                     /\ obj'.last_cleared = ob
                     /\ obj'.clear_count = IF obj.last_cleared = ob
                                           THEN obj.clear_count + 1 ELSE 1]_vars

\* the third remediation of o2 in a row was a hijack, and the pre-check
\* after it, for o2 again, was answered with clear and no hijack
C34_Witness ==
    /\ layer = "JanitorSentinel"
    /\ Len(tasks) = 2
    /\ obj.last_cleared = "o2" /\ obj.clear_count = 3
    /\ IsPreCheck(1) /\ IsPreCheck(2)
    /\ FirstObstacle(tasks[1].par.blocking) = "o2"
    /\ FirstObstacle(tasks[2].par.blocking) = "o2"
    /\ tasks[1].par.goal # "site_recovery" /\ tasks[2].par.goal # "site_recovery"
    /\ tasks[1].pc = "done" /\ JanitorHijacks(tasks[1])
    /\ tasks[2].pc = "done" /\ ~JanitorHijacks(tasks[2]) /\ JanitorClears(tasks[2])

\* C36: for a visible mobile blocker that no close pattern closes,
\* ResponsiveSentinel sends an evaluate action that removes the element
\* before it sends resume.  A click returns nothing to the handler, so the
\* frames it sends are the same whether or not the blocker was closed: the
\* first starlight.action is the click on the first close pattern, and the
\* evaluate would be a later one.
C36_AsStated ==
    layer = "ResponsiveSentinel" =>
        \A p \in DOMAIN tasks :
            (tasks[p].par.mobile /\ tasks[p].par.blocker
                /\ FramesOf(p, {"resume"}) # <<>>) =>
                    Len(FramesOf(p, {"action"})) >= 2

\* The Hub's rule for the frame that ends a hijack: starlight.resume with
\* re_check = true re-enters PRE_CHECK for the original command, and with
\* re_check = false the original command goes to DISPATCHED.
ResumeLeadsTo(f) == IF f.rc THEN "PRE_CHECK" ELSE "DISPATCHED"

\* C13: with pii.mode = block, a pre-check whose text holds a PII match is
\* hijacked and PIISentinel sends no frame that, under the Hub's resume
\* rule, lets the original command reach DISPATCHED.
C13_AsStated ==
    (layer = "PIISentinel" /\ cfg.mode = "block") =>
        \A p \in DOMAIN tasks :
            tasks[p].par.text = "pii" =>
                \A i \in DOMAIN tasks[p].out :
                    tasks[p].out[i].m = "resume" =>
                        ResumeLeadsTo(tasks[p].out[i]) # "DISPATCHED"

\* pre-check p was remediated, to the end, for an obstacle that has no
\* selector in memory
HeuristicallyRemediated(p) ==
    /\ tasks[p].pc = "done"
    /\ tasks[p].par.goal # "site_recovery"
    /\ FramesOf(p, {"hijack"}) # <<>>
    /\ FramesOf(p, {"action"}) # <<>>
    /\ FirstObstacle(tasks[p].par.blocking) \notin obj.memory

\* C14: once JanitorSentinel has remediated an obstacle it had no learned
\* selector for, handling a COMMAND_COMPLETE with success = true leaves the
\* obstacle in memory and the memory file rewritten with it.
C14_AsStated ==
    [][ layer = "JanitorSentinel" =>
            \A q \in DOMAIN tasks :
                ( /\ ~IsPreCheck(q)
                  /\ tasks[q].par.success
                  /\ tasks[q].pc = "new"
                  /\ tasks'[q].pc = "done" ) =>
                    \A p \in PreChecks :
                        HeuristicallyRemediated(p) =>
                            /\ FirstObstacle(tasks[p].par.blocking) \in obj'.memory
                            /\ obj'.saved_memory = obj'.memory ]_vars

\* C21: a send_resume or send_action (send_click, send_fill, ... go through
\* send_action or straight to _send_msg in the same way) that the handler of
\* pre-check P calls without msg_id sends a frame whose id is P.
C21_AsStated ==
    \A p \in PreChecks : \A i \in DOMAIN tasks[p].out :
        LET f == tasks[p].out[i]
        IN  (f.m \in {"resume", "action"} /\ ~f.x) => f.id = p

-----
(* SentinelBase._save_memory.  A file is a sequence of chunks; json.dump    *)
(* and the copy of shutil.move write a chunk at a time.                     *)

\* calls of _save_memory in one behaviour
MaxSaves == 2

\* chunks of a complete memory file
SaveChunks == 2

NoFile == [exists |-> FALSE, data |-> <<>>]
File(d) == [exists |-> TRUE, data |-> d]

\* the complete file that json.dump writes for generation g of self.memory
Content(g) == File([i \in 1..SaveChunks |-> g])

\* os.rename(src, dst) inside shutil.move replaces dst; on win32 it raises
\* when dst exists, and shutil.move then copies src over dst
RenameReplaces(plat, dst) == plat # "win32" \/ ~dst.exists

\* self.memory has changed; _save_memory is called and mkstemp has made
\* the temporary file
SaveBegin ==
    /\ save_pc = "idle" /\ ~killed
    /\ memory < MaxSaves
    /\ memory' = memory + 1
    /\ temp_file' = File(<<>>)
    /\ prev' = memory_file
    /\ save_pc' = "dump"
    /\ UNCHANGED <<platform, memory_file, killed, dvars, rvars, xvars>>

\* mkstemp raises: the outer except prints the warning
MkstempFails ==
    /\ save_pc = "idle" /\ ~killed
    /\ memory < MaxSaves
    /\ memory' = memory + 1
    /\ prev' = memory_file
    /\ UNCHANGED <<platform, memory_file, temp_file, save_pc, killed, dvars, rvars, xvars>>

\* json.dump writes the next chunk, or the with block closes the file
DumpStep ==
    /\ save_pc = "dump" /\ ~killed
    /\ IF Len(temp_file.data) < SaveChunks
       THEN /\ temp_file' = File(Append(temp_file.data, memory))
            /\ UNCHANGED save_pc
       ELSE /\ save_pc' = "move"
            /\ UNCHANGED temp_file
    /\ UNCHANGED <<platform, memory, memory_file, killed, prev, dvars, rvars, xvars>>

\* writing the temporary file raises
DumpFails ==
    /\ save_pc = "dump" /\ ~killed
    /\ save_pc' = "cleanup"
    /\ UNCHANGED <<platform, memory, memory_file, temp_file, killed, prev, dvars, rvars, xvars>>

\* except Exception: os.unlink(temp_path); raise
Cleanup ==
    /\ save_pc = "cleanup" /\ ~killed
    /\ temp_file' = NoFile
    /\ save_pc' = "idle"
    /\ UNCHANGED <<platform, memory, memory_file, killed, prev, dvars, rvars, xvars>>

\* shutil.move(temp_path, self.memory_file): the rename
Move ==
    /\ save_pc = "move" /\ ~killed
    /\ IF RenameReplaces(platform, memory_file)
       THEN /\ memory_file' = temp_file
            /\ temp_file' = NoFile
            /\ save_pc' = "idle"
       ELSE /\ save_pc' = "copy_open"
            /\ UNCHANGED <<memory_file, temp_file>>
    /\ UNCHANGED <<platform, memory, killed, prev, dvars, rvars, xvars>>

\* shutil.move after a failed rename: copy2 opens the destination for
\* writing, copies chunk by chunk, and the source is unlinked
CopyStep ==
    /\ save_pc \in {"copy_open", "copy"} /\ ~killed
    /\ IF save_pc = "copy_open"
       THEN /\ memory_file' = File(<<>>)
            /\ save_pc' = "copy"
            /\ UNCHANGED temp_file
       ELSE IF Len(memory_file.data) < Len(temp_file.data)
       THEN /\ memory_file' =
                 File(Append(memory_file.data,
                             temp_file.data[Len(memory_file.data) + 1]))
            /\ UNCHANGED <<save_pc, temp_file>>
       ELSE /\ temp_file' = NoFile
            /\ save_pc' = "idle"
            /\ UNCHANGED memory_file
    /\ UNCHANGED <<platform, memory, killed, prev, dvars, rvars, xvars>>

\* the copy raises
CopyFails ==
    /\ save_pc \in {"copy_open", "copy"} /\ ~killed
    /\ save_pc' = "cleanup"
    /\ UNCHANGED <<platform, memory, memory_file, temp_file, killed, prev, dvars, rvars, xvars>>

\* the process is killed
Kill ==
    /\ ~killed
    /\ killed' = TRUE
    /\ UNCHANGED <<platform, memory, memory_file, temp_file, save_pc, prev, dvars, rvars, xvars>>

SaveInit ==
    /\ DispatchIdle
    /\ ExtIdle
    /\ RuntimeIdle
    /\ platform \in {"posix", "win32"}
    /\ memory = 0
    /\ memory_file \in {NoFile, Content(0)}
    /\ temp_file = NoFile
    /\ save_pc = "idle"
    /\ killed = FALSE
    /\ prev = memory_file

SaveNext ==
    \/ SaveBegin
    \/ MkstempFails
    \/ DumpStep
    \/ DumpFails
    \/ Cleanup
    \/ Move
    \/ CopyStep
    \/ CopyFails
    \/ Kill

SaveSpec == SaveInit /\ [][SaveNext]_vars

\* C6: at every point of _save_memory, killed or not, the memory file holds
\* its complete previous content or the complete new content, and until the
\* rename it is unchanged.
C6_NeverPartial ==
    /\ memory_file \in {prev, Content(memory)}
    /\ save_pc \in {"dump", "cleanup", "move"} => memory_file = prev

-----------------------------------------------------------------------------
(* SentinelBase.start: the reconnect loop, the read loop with the           *)
(* handshake, the heartbeat tasks and the signal handler.                   *)

\* frames the Hub sends in one behaviour
MaxFrames == 2

Challenges == {"c1", "c2"}

\* An inbound frame, reduced to what the read loop looks at:
\*   json  "invalid": not JSON; "nonobj": JSON but not an object; "obj"
\*   idk   "reg" / "chal": the id contains "reg-" / "chal-"; "other"
\*   res   "absent": no result member; "nonobj": result is not an object;
\*         "ok": result.success is truthy; "fail": it is not
\*   ch    result.challenge
RxFrame(json, idk, res, ch) == [json |-> json, idk |-> idk, res |-> res, ch |-> ch]

RxFrames ==
    { RxFrame("invalid", "-", "-", "-"), RxFrame("nonobj", "-", "-", "-") }
    \cup { RxFrame("obj", i, r, "-") :
             i \in {"reg", "chal", "other"}, r \in {"absent", "nonobj", "fail"} }
    \cup { RxFrame("obj", "reg", "ok", c) : c \in Challenges }
    \cup { RxFrame("obj", i, "ok", "-") : i \in {"chal", "other"} }

\* a frame that is not a well-formed JSON-RPC object
Malformed(f) == f.json # "obj" \/ f.res = "nonobj"

\* What the body of the read loop does with a frame:
\*   "drop"      json.loads raises JSONDecodeError, which is caught
\*   "raise"     data.get or data["result"].get raises AttributeError, which
\*               leaves the read loop
\*   "dispatch"  the frame reaches asyncio.create_task(_handle_protocol)
ReadOutcome(f) ==
    IF f.json = "invalid" THEN "drop"
    ELSE IF f.json = "nonobj" THEN "raise"
    ELSE IF f.res = "nonobj" /\ f.idk \in {"reg", "chal"} THEN "raise"
    ELSE "dispatch"

\* a read loop that echoes on every registration result
SendsChallengeAnyResult(f) == f.json = "obj" /\ f.idk = "reg" /\ f.res # "absent"

\* the frame makes the read loop send starlight.challenge_response
SendsChallenge(f) == f.json = "obj" /\ f.idk = "reg" /\ f.res = "ok"

\* the frame makes the read loop set self._registered
SetsReady(f) == f.json = "obj" /\ f.idk = "chal" /\ f.res = "ok"

\* a heartbeat loop that gives up at its first test
HeartbeatOnce(run) == FALSE

\* the condition of the while loop of _heartbeat_loop (self._websocket is
\* never reset to None once a connection was made)
HeartbeatGoesOn(run) == run

\* leaving the async with block closes the connection
Teardown ==
    /\ conn' = "none"
    /\ inbox' = <<>>
    /\ rpc' = "after"

\* while self._running: start a connection attempt or leave the loop
LoopTest ==
    /\ rpc = "loop"
    /\ IF running
       THEN /\ connects < MaxConnects
            /\ connects' = connects + 1
            /\ rpc' = "connecting"
       ELSE /\ rpc' = "final_save"
            /\ UNCHANGED connects
    /\ UNCHANGED <<running, conn, registered, inbox, hb, nframes, cr, saved,
                   dvars, svars, xvars>>

\* websockets.connect succeeds
ConnectOk ==
    /\ rpc = "connecting"
    /\ conn' = "open"
    /\ rpc' = "register"
    /\ UNCHANGED <<running, registered, inbox, hb, connects, nframes, cr, saved,
                   dvars, svars, xvars>>

\* websockets.connect raises (refused, or any other error)
ConnectFails ==
    /\ rpc = "connecting"
    /\ rpc' = "after"
    /\ UNCHANGED <<running, conn, registered, inbox, hb, connects, nframes, cr,
                   saved, dvars, svars, xvars>>

\* _register sends starlight.registration and the heartbeat task is created;
\* on a connection that is already closed the send raises
Register ==
    /\ rpc = "register"
    /\ IF conn = "open"
       THEN /\ hb' = [hb EXCEPT ![connects] = "send"]
            /\ rpc' = "reading"
            /\ UNCHANGED <<conn, inbox>>
       ELSE /\ Teardown
            /\ UNCHANGED hb
    /\ UNCHANGED <<running, registered, connects, nframes, cr, saved, dvars, svars, xvars>>

\* one turn of async for message in websocket
Read ==
    /\ rpc = "reading"
    /\ inbox # <<>>
    /\ LET f == Head(inbox)
       IN  IF ~running
           THEN /\ Teardown
                /\ UNCHANGED <<registered, cr>>
           ELSE IF ReadOutcome(f) = "drop"
           THEN /\ inbox' = Tail(inbox)
                /\ UNCHANGED <<rpc, conn, registered, cr>>
           ELSE IF ReadOutcome(f) = "raise"
           THEN /\ Teardown
                /\ UNCHANGED <<registered, cr>>
           ELSE IF SendsChallenge(f) /\ conn # "open"
           THEN /\ Teardown
                /\ UNCHANGED <<registered, cr>>
           ELSE /\ inbox' = Tail(inbox)
                /\ cr' = IF SendsChallenge(f) THEN Append(cr, f.ch) ELSE cr
                /\ registered' = (registered \/ SetsReady(f))
                /\ UNCHANGED <<rpc, conn>>
    /\ UNCHANGED <<running, hb, connects, nframes, saved, dvars, svars, xvars>>

\* the connection is closed and nothing is left to read: the iteration ends
ReadEnd ==
    /\ rpc = "reading"
    /\ inbox = <<>>
    /\ conn = "closed"
    /\ Teardown
    /\ UNCHANGED <<running, registered, hb, connects, nframes, cr, saved,
                   dvars, svars, xvars>>

\* if self._running: await asyncio.sleep(reconnect_delay)
AfterConnection ==
    /\ rpc = "after"
    /\ rpc' = IF running THEN "backoff" ELSE "loop"
    /\ UNCHANGED <<running, conn, registered, inbox, hb, connects, nframes, cr,
                   saved, dvars, svars, xvars>>

\* reconnect_delay has passed
BackoffElapsed ==
    /\ rpc = "backoff"
    /\ rpc' = "loop"
    /\ UNCHANGED <<running, conn, registered, inbox, hb, connects, nframes, cr,
                   saved, dvars, svars, xvars>>

\* the final _save_memory, and start() returns
FinalSave ==
    /\ rpc = "final_save"
    /\ saved' = TRUE
    /\ rpc' = "returned"
    /\ UNCHANGED <<running, conn, registered, inbox, hb, connects, nframes, cr,
                   dvars, svars, xvars>>

\* handle_shutdown: SIGINT or SIGTERM is delivered
Signal ==
    /\ rpc # "returned"
    /\ running
    /\ saved' = TRUE
    /\ running' = FALSE
    /\ UNCHANGED <<rpc, conn, registered, inbox, hb, connects, nframes, cr,
                   dvars, svars, xvars>>

\* one turn of the heartbeat loop of connection c: test the condition,
\* send the pulse on self._websocket, go to sleep
HeartbeatSend(c) ==
    /\ hb[c] = "send"
    /\ hb' = [hb EXCEPT ![c] = IF HeartbeatGoesOn(running) /\ conn = "open"
                                THEN "sleep" ELSE "ended"]
    /\ UNCHANGED <<rpc, running, conn, registered, inbox, connects, nframes, cr,
                   saved, dvars, svars, xvars>>

\* heartbeatInterval has passed
HeartbeatWake(c) ==
    /\ hb[c] = "sleep"
    /\ hb' = [hb EXCEPT ![c] = "send"]
    /\ UNCHANGED <<rpc, running, conn, registered, inbox, connects, nframes, cr,
                   saved, dvars, svars, xvars>>

\* the Hub sends a frame; the read loop takes the frames one at a time and
\* in order, so the next frame is sent once the last one has been read
HubSend(f) ==
    /\ conn = "open"
    /\ inbox = <<>>
    /\ nframes < MaxFrames
    /\ inbox' = Append(inbox, f)
    /\ nframes' = nframes + 1
    /\ UNCHANGED <<rpc, running, conn, registered, hb, connects, cr, saved,
                   dvars, svars, xvars>>

\* the Hub closes the connection, or the network drops it
HubClose ==
    /\ conn = "open"
    /\ conn' = "closed"
    /\ UNCHANGED <<rpc, running, registered, inbox, hb, connects, nframes, cr,
                   saved, dvars, svars, xvars>>

RuntimeInit ==
    /\ DispatchIdle
    /\ ExtIdle
    /\ SaveIdle
    /\ RuntimeIdle

\* the steps of start()
StartStep ==
    \/ LoopTest
    \/ Register
    \/ Read
    \/ ReadEnd
    \/ AfterConnection
    \/ BackoffElapsed
    \/ FinalSave

RuntimeNext ==
    \/ LoopTest
    \/ ConnectOk
    \/ ConnectFails
    \/ Register
    \/ Read
    \/ ReadEnd
    \/ AfterConnection
    \/ BackoffElapsed
    \/ FinalSave
    \/ Signal
    \/ \E c \in 1..MaxConnects : HeartbeatSend(c)
    \/ \E c \in 1..MaxConnects : HeartbeatWake(c)
    \/ \E f \in RxFrames : HubSend(f)
    \/ HubClose

RuntimeSpec == RuntimeInit /\ [][RuntimeNext]_vars

\* The event loop runs every task that is ready, timers expire, and a
\* connection attempt ends one way or the other.  Nothing is assumed of the
\* Hub or of signals.  These steps change the runtime's variables only, so
\* fairness is stated over rvars.
FairRuntimeSpec ==
    /\ RuntimeInit
    /\ [][RuntimeNext]_vars
    /\ WF_rvars(StartStep)
    /\ WF_rvars(ConnectOk \/ ConnectFails)
    /\ \A c \in 1..MaxConnects : WF_rvars(HeartbeatSend(c))
    /\ \A c \in 1..MaxConnects : WF_rvars(HeartbeatWake(c))

-----------------------------------------------------------------------------
(* Properties of start (RuntimeSpec, FairRuntimeSpec).                      *)

\* C3: a challenge_response is sent only while a registration result with
\* success = true is handled, and echoes its challenge; the ready signal is
\* set only while a challenge_response result with success = true is
\* handled; handling a registration result without success sends no
\* challenge_response and leaves the ready signal as it was.
C3_Handshake ==
    [][ /\ cr' # cr =>
              /\ inbox # <<>>
              /\ Head(inbox).json = "obj"
              /\ Head(inbox).idk = "reg"
              /\ Head(inbox).res = "ok"
              /\ cr' = Append(cr, Head(inbox).ch)
        /\ registered' # registered =>
              /\ registered'
              /\ inbox # <<>>
              /\ Head(inbox).json = "obj"
              /\ Head(inbox).idk = "chal"
              /\ Head(inbox).res = "ok"
        /\ ( /\ inbox # <<>>
             /\ Head(inbox).idk = "reg"
             /\ Head(inbox).res # "ok" ) =>
              /\ cr' = cr
              /\ registered' = registered ]_vars

\* the handshake has been completed: one challenge echoed, ready set
C3_Witness ==
    /\ registered
    /\ Len(cr) = 1
    /\ cr[1] \in Challenges

\* C4: after a lost connection or a failed attempt, while no shutdown is
\* requested, start() waits and makes the next connection attempt; once
\* shutdown is requested no connection is opened.
C4_AsStated ==
    /\ [][(conn # "open" /\ conn' = "open") => running]_vars
    /\ (rpc = "after" /\ running /\ connects < MaxConnects)
          ~> (rpc = "connecting" \/ ~running)

C7_AsStated ==
    /\ [][~running => connects' = connects]_vars
    /\ [](~running => saved)
    /\ (~running) ~> (rpc = "returned")

\* C30: a heartbeat task started on an earlier connection never sends a
\* pulse on a later connection: every pulse that is sent comes from the
\* task of the current connection attempt, whatever the lengths of the
\* reconnect delay and of the heartbeat interval.
C30_AsStated ==
    [][\A c \in 1..MaxConnects :
          (hb[c] = "send" /\ hb'[c] = "sleep") => c = connects]_vars

\* C31: the ready signal reflects the current connection: while a connection
\* attempt is being made, and until a frame of the new connection has been
\* read, the ready signal is not set.
C31_AsStated ==
    rpc \in {"connecting", "register"} => ~registered

\* C8: reading a frame that is not a well-formed JSON-RPC object leaves the
\* read loop running and the connection as it is.
C8_AsStated ==
    [][ ( /\ rpc = "reading"
          /\ running
          /\ inbox # <<>>
          /\ Malformed(Head(inbox))
          /\ Len(inbox') < Len(inbox) ) =>
              (rpc' = "reading" /\ conn' = conn) ]_vars

-----------------------------------------------------------------------------
(* The Hub's Command Orchestrator, for one command (HubSpec).  The Hub is   *)
(* not part of the Sentinel sources; its state machine follows section 4.5  *)
(* of the specification.  The Sentinels and their priorities are the ones   *)
(* the Sentinel classes register with.                                      *)

\* re-checks one command may go through
MaxAttempts == 2

\* the per-command veto cap
HubVetoCap == 3

HubSentinels == {"PIISentinel", "JanitorSentinel", "DataSentinel", "VisionSentinel"}

\* the priority each class passes to SentinelBase.__init__
Priority(l) ==
    CASE l = "PulseSentinel" -> 1
      [] l = "PIISentinel" -> 2
      [] l = "DataSentinel" -> 5
      [] l = "JanitorSentinel" -> 5
      [] l = "ResponsiveSentinel" -> 6
      [] l = "StealthSentinel" -> 7
      [] l = "VisionSentinel" -> 7

\* a vote on the wire: wait0 is a wait with zero confidence
HubVotes == {"clear", "wait", "wait0", "hijack"}

\* later votes from the same Sentinel overwrite earlier ones
Overwrite(l, s, v) == SelectSeq(l, LAMBDA e : e.s # s) \o <<[s |-> s, v |-> v]>>

Voted(l) == { l[i].s : i \in DOMAIN l }

\* the positions of the hijack votes
Hijacks(l) == { i \in DOMAIN l : l[i].v = "hijack" }

\* the decision rule applies once all READY Sentinels have voted or the
\* sync budget has elapsed
DecisionDue == ready \subseteq Voted(ledger) \/ elapsed

\* a hijack choice that lets the earliest hijack win whatever its priority
FirstHijack(l) == CHOOSE i \in Hijacks(l) : \A j \in Hijacks(l) : i <= j

\* rule 1: the highest-priority hijack wins, lower number first, ties
\* broken by arrival
WinningHijack(l) ==
    CHOOSE i \in Hijacks(l) :
        \A j \in Hijacks(l) :
            \/ Priority(l[i].s) < Priority(l[j].s)
            \/ Priority(l[i].s) = Priority(l[j].s) /\ i <= j

\* a gate that lets the decision through as soon as one vote is in
DecisionDueEarly == ledger # <<>> \/ DecisionDue

\* the guard of the decision
DecisionGate == DecisionDue

HubEnqueue ==
    /\ hstate = "QUEUED"
    /\ hstate' = "AWAITING_SETTLEMENT"
    /\ UNCHANGED <<ready, ledger, elapsed, winner, vetoes, attempt, sentinel>>

HubSettled ==
    /\ hstate = "AWAITING_SETTLEMENT"
    /\ hstate' = "PRE_CHECK"
    /\ UNCHANGED <<ready, ledger, elapsed, winner, vetoes, attempt, sentinel>>

\* PRE_CHECK: fan out to the READY Sentinels, start the sync-budget timer
HubFanOut(rdy) ==
    /\ hstate = "PRE_CHECK"
    /\ hstate' = "VOTING"
    /\ ready' = rdy
    /\ ledger' = <<>>
    /\ elapsed' = FALSE
    /\ winner' = "none"
    /\ UNCHANGED <<vetoes, attempt, sentinel>>

\* VOTING: a vote tagged with the correlation id arrives from a Sentinel
\* that was READY at the fan-out
HubVote(s, v) ==
    /\ hstate = "VOTING"
    /\ ~DecisionDue
    /\ s \in ready
    /\ ledger' = Overwrite(ledger, s, v)
    /\ UNCHANGED <<hstate, ready, elapsed, winner, vetoes, attempt, sentinel>>

HubBudgetElapsed ==
    /\ hstate = "VOTING"
    /\ ~DecisionDue
    /\ elapsed' = TRUE
    /\ UNCHANGED <<hstate, ready, ledger, winner, vetoes, attempt, sentinel>>

\* the decision rule
HubDecide ==
    /\ hstate = "VOTING"
    /\ DecisionGate
    /\ IF Hijacks(ledger) # {}
       THEN /\ hstate' = "HIJACKED"
            /\ winner' = ledger[WinningHijack(ledger)].s
            /\ UNCHANGED vetoes
       ELSE IF \E i \in DOMAIN ledger : ledger[i].v = "wait"
       THEN /\ hstate' = IF vetoes + 1 > HubVetoCap THEN "DISPATCHED"
                                                    ELSE "RETRY_BACKOFF"
            /\ vetoes' = IF vetoes + 1 > HubVetoCap THEN vetoes ELSE vetoes + 1
            /\ UNCHANGED winner
       ELSE /\ hstate' = "DISPATCHED"
            /\ UNCHANGED <<winner, vetoes>>
    /\ UNCHANGED <<ready, ledger, elapsed, attempt, sentinel>>

\* HIJACKED: the winner ends its remediation with starlight.resume
HubResume(re_check) ==
    /\ hstate = "HIJACKED"
    /\ re_check => attempt < MaxAttempts
    /\ hstate' = IF re_check THEN "PRE_CHECK" ELSE "DISPATCHED"
    /\ attempt' = IF re_check THEN attempt + 1 ELSE attempt
    /\ UNCHANGED <<ready, ledger, elapsed, winner, vetoes, sentinel>>

HubBackoffOver ==
    /\ hstate = "RETRY_BACKOFF"
    /\ hstate' = "PRE_CHECK"
    /\ UNCHANGED <<ready, ledger, elapsed, winner, vetoes, attempt, sentinel>>

\* DISPATCHED: the browser driver returns the command's result
HubResult(ok) ==
    /\ hstate = "DISPATCHED"
    /\ hstate' = IF ok THEN "COMPLETE" ELSE "FAILED"
    /\ UNCHANGED <<ready, ledger, elapsed, winner, vetoes, attempt, sentinel>>

\* the wall clock passes the command deadline in a non-terminal state
HubTimeout ==
    /\ hstate \notin {"COMPLETE", "FAILED", "TIMED_OUT"}
    /\ hstate' = "TIMED_OUT"
    /\ UNCHANGED <<ready, ledger, elapsed, winner, vetoes, attempt, sentinel>>

HubInit ==
    /\ DispatchIdle
    /\ SaveIdle
    /\ RuntimeIdle
    /\ DriverIdle
    /\ ProtocolIdle
    /\ MoreIdle
    /\ HubIdle

HubNext ==
    \/ HubEnqueue
    \/ HubSettled
    \/ \E rdy \in SUBSET HubSentinels : HubFanOut(rdy)
    \/ \E s \in HubSentinels, v \in HubVotes : HubVote(s, v)
    \/ HubBudgetElapsed
    \/ HubDecide
    \/ \E rc \in BOOLEAN : HubResume(rc)
    \/ HubBackoffOver
    \/ \E ok \in BOOLEAN : HubResult(ok)
    \/ HubTimeout

HubSpec == HubInit /\ [][HubNext]_vars

\* the step in which the decision rule is applied
HubDecides == hstate = "VOTING" /\ hstate' \in {"HIJACKED", "RETRY_BACKOFF", "DISPATCHED"}

\* C15: when the Hub decides a pre-check in which a Sentinel voted hijack,
\* the command enters HIJACKED for the hijacker with the lowest priority
\* number, the earliest arrival among equals; clear and wait votes never
\* override a hijack.
C15_HijackWins ==
    [][ (HubDecides /\ Hijacks(ledger) # {}) =>
            /\ hstate' = "HIJACKED"
            /\ \E i \in Hijacks(ledger) :
                  /\ winner' = ledger[i].s
                  /\ \A j \in Hijacks(ledger) \ {i} :
                        \/ Priority(ledger[i].s) < Priority(ledger[j].s)
                        \/ Priority(ledger[i].s) = Priority(ledger[j].s) /\ i < j ]_vars

\* the command is HIJACKED for Janitor, whose hijack arrived after those of
\* Vision (lower priority) and before that of Data (equal priority), while
\* PII voted wait
C15_Witness ==
    /\ hstate = "HIJACKED"
    /\ winner = "JanitorSentinel"
    /\ ledger = << [s |-> "VisionSentinel", v |-> "hijack"],
                   [s |-> "JanitorSentinel", v |-> "hijack"],
                   [s |-> "PIISentinel", v |-> "wait"],
                   [s |-> "DataSentinel", v |-> "hijack"] >>

\* C16: a command is never DISPATCHED before every Sentinel that was READY
\* at the fan-out has voted or the sync budget has elapsed, and a Sentinel
\* that has not voted when the budget elapses counts as clear: the decision
\* is the one the cast votes give.
C16_DispatchAfterVotes ==
    /\ [](hstate = "DISPATCHED" => (ready \subseteq Voted(ledger) \/ elapsed))
    /\ [][ HubDecides =>
              /\ ready \subseteq Voted(ledger) \/ elapsed
              /\ (\A i \in DOMAIN ledger : ledger[i].v \in {"clear", "wait0"})
                     => hstate' = "DISPATCHED" ]_vars

\* the budget elapsed with one clear vote in and another READY Sentinel
\* silent, and the command was dispatched
C16_Witness ==
    /\ hstate = "DISPATCHED"
    /\ elapsed
    /\ ready = {"JanitorSentinel", "VisionSentinel"}
    /\ ledger = << [s |-> "VisionSentinel", v |-> "clear"] >>

-----------------------------------------------------------------------------
(* The stealth driver (src/stealth_driver.py): the InputReader thread puts  *)
(* the requests it reads from stdin on a PriorityQueue, and main() takes    *)
(* them off, runs them and writes one response line to stdout (DriverSpec). *)

\* request lines the InputReader reads
MaxRequests == 2

\* class ProtocolError
NOT_FOUND == -32001
STALE_INTENT == -32002
TIMEOUT_EXCEEDED == -32003
OBSTRUCTED == -32004
DRIVER_CRASH == -32005

ShutdownMethods == {"close", "shutdown", "force_kill"}
StateSyncMethods == {"get_cookies", "set_cookies", "get_storage", "set_storage"}

\* the methods dispatch_command routes besides the shutdown ones
DriverMethods ==
    {"initialize", "goto", "click", "fill", "type", "screenshot", "evaluate",
     "press", "get_page_text", "get_url"} \cup StateSyncMethods

\* the branches of dispatch_command that call params.get
ReadsParams ==
    {"initialize", "goto", "click", "fill", "type", "evaluate", "press",
     "set_cookies", "set_storage"}

\* the driver methods whose except clause re-raises
Reraises == StateSyncMethods

\* The request lines of the model: the method, and whether "params" is a
\* JSON object or null.
RequestKinds ==
    { [method |-> "close", params |-> "object"],
      [method |-> "cancel", params |-> "object"],
      [method |-> "get_cookies", params |-> "object"],
      [method |-> "click", params |-> "object"],
      [method |-> "click", params |-> "null"],
      [method |-> "frobnicate", params |-> "object"] }

\* An exception of a driver call: its class, and the keyword its message
\* holds ("": none of them).
Exc(cls, msg) == [cls |-> cls, msg |-> msg]
NoExc == Exc("none", "")
Excs ==
    { Exc("NoSuchElementException", ""), Exc("StaleElementReferenceException", ""),
      Exc("TimeoutException", ""), Exc("ElementNotInteractableException", ""),
      Exc("WebDriverException", ""), Exc("RuntimeError", ""),
      Exc("WebDriverException", "refused") }

\* _safe_driver_call: is_connection_error
ConnectionError(e) == e.msg = "refused"

\* the driver methods that hold self.lock around _safe_driver_call
UnderLock == {"goto", "click", "fill"}

\* When every attempt of _safe_driver_call ends with a connection error it
\* calls recover(), which acquires self.lock; the caller holds that lock
\* already and threading.Lock is not reentrant, so the main thread blocks.
Blocks(req, e) == req.method \in UnderLock /\ ConnectionError(e)

\* a priority assignment that forgets the shutdown methods
PriorityNoShutdown(method) ==
    IF method = "cancel" THEN 1
    ELSE IF method \in StateSyncMethods THEN 2
    ELSE 3

\* InputReader.run: the CommandPriority of a method
PriorityOf(method) ==
    IF method \in ShutdownMethods THEN 0
    ELSE IF method = "cancel" THEN 1
    ELSE IF method \in StateSyncMethods THEN 2
    ELSE 3

\* map_exception_to_protocol: the code
MapException(e) ==
    IF e.cls = "NoSuchElementException" \/ e.msg = "no such element" THEN NOT_FOUND
    ELSE IF e.cls = "StaleElementReferenceException" \/ e.msg = "stale" THEN STALE_INTENT
    ELSE IF e.cls = "TimeoutException" \/ e.msg = "timeout" THEN TIMEOUT_EXCEEDED
    ELSE IF e.cls = "ElementNotInteractableException" \/ e.msg = "not interactable"
    THEN OBSTRUCTED
    ELSE DRIVER_CRASH

\* the "code" member of the dict a driver method returns from its except
\* clause (0: the dict has none)
CaughtCode(method) ==
    CASE method = "goto" -> -32001
      [] method = "click" -> -32002
      [] method = "fill" -> -32003
      [] OTHER -> 0

\* make_success_response / make_error_response, reduced to the id, the
\* member that holds the payload, and the payload's status and code
SuccessResponse(id, status, code) ==
    [id |-> id, kind |-> "result", status |-> status, code |-> code]
ErrorResponse(id, code) ==
    [id |-> id, kind |-> "error", status |-> "-", code |-> code]

\* dispatch_command reaches a driver method and calls it
CallsDriver(req) ==
    /\ req.method \in DriverMethods
    /\ req.method \in ReadsParams => req.params = "object"

\* What dispatch_command does for req when the driver call it makes, if
\* any, ends with e: it returns a dict or raises.
Dispatch(req, e) ==
    IF req.method \notin DriverMethods
    THEN [raised |-> TRUE, exc |-> Exc("ValueError", ""), status |-> "-", code |-> 0]
    ELSE IF req.method \in ReadsParams /\ req.params # "object"
    THEN [raised |-> TRUE, exc |-> Exc("AttributeError", ""), status |-> "-", code |-> 0]
    ELSE IF e = NoExc
    THEN [raised |-> FALSE, exc |-> NoExc, status |-> "ok", code |-> 0]
    ELSE IF req.method \in Reraises
    THEN [raised |-> TRUE, exc |-> e, status |-> "-", code |-> 0]
    ELSE [raised |-> FALSE, exc |-> NoExc, status |-> "error",
          code |-> CaughtCode(req.method)]

\* The lines one turn of the main loop writes to stdout.  The handler of a
\* raised exception calls params.get("selector") first; when that raises,
\* the outer except clause logs the error and nothing is written.
Responses(req, e) ==
    IF req.method \in ShutdownMethods
    THEN <<SuccessResponse(req.id, "ok", 0)>>
    ELSE LET d == Dispatch(req, e)
         IN  IF ~d.raised THEN <<SuccessResponse(req.id, d.status, d.code)>>
             ELSE IF req.params # "object" THEN <<>>
             ELSE <<ErrorResponse(req.id, MapException(d.exc))>>

\* InputReader.run reads a request line and queues it; the i-th request
\* carries id i
ReaderPut(k) ==
    /\ reader
    /\ mpc # "exited"
    /\ nread < MaxRequests
    /\ nread' = nread + 1
    /\ cmd_queue' = Append(cmd_queue, [id |-> nread + 1, method |-> k.method,
                                       params |-> k.params])
    /\ UNCHANGED <<reader, stop_event, is_running, mpc, cur, turns, nondriver>>

\* InputReader.run reads EOF
ReaderEof ==
    /\ reader
    /\ mpc # "exited"
    /\ reader' = FALSE
    /\ stop_event' = TRUE
    /\ UNCHANGED <<cmd_queue, nread, is_running, mpc, cur, turns, nondriver>>

\* cmd_queue.get: an entry whose priority is the least (PrioritizedCommand
\* compares by priority only)
MainGet(i) ==
    /\ mpc = "get"
    /\ is_running /\ ~stop_event
    /\ i \in DOMAIN cmd_queue
    /\ \A j \in DOMAIN cmd_queue :
          PriorityOf(cmd_queue[i].method) <= PriorityOf(cmd_queue[j].method)
    /\ cur' = cmd_queue[i]
    /\ cmd_queue' = SubSeq(cmd_queue, 1, i - 1) \o SubSeq(cmd_queue, i + 1, Len(cmd_queue))
    /\ mpc' = "exec"
    /\ UNCHANGED <<nread, reader, stop_event, is_running, turns, nondriver>>

\* the rest of the turn: run the command and write its response; e is how
\* the driver call ends
MainExec(e) ==
    /\ mpc = "exec"
    /\ e # NoExc => CallsDriver(cur)
    /\ IF Blocks(cur, e)
       THEN /\ turns' = Append(turns, [req |-> cur, exc |-> e, out |-> <<>>])
            /\ mpc' = "blocked"
            /\ UNCHANGED <<is_running, stop_event>>
       ELSE /\ turns' = Append(turns, [req |-> cur, exc |-> e,
                                       out |-> Responses(cur, e)])
            /\ mpc' = "get"
            /\ IF cur.method \in ShutdownMethods
               THEN is_running' = FALSE /\ stop_event' = TRUE
               ELSE UNCHANGED <<is_running, stop_event>>
    /\ UNCHANGED <<cmd_queue, nread, reader, cur, nondriver>>

\* the loop condition fails: drain the queue and exit
MainExit ==
    /\ mpc = "get"
    /\ ~is_running \/ stop_event
    /\ cmd_queue' = <<>>
    /\ mpc' = "exited"
    /\ UNCHANGED <<nread, reader, stop_event, is_running, cur, turns, nondriver>>

DriverInit ==
    /\ DispatchIdle
    /\ SaveIdle
    /\ RuntimeIdle
    /\ HubIdle
    /\ ProtocolIdle
    /\ MoreIdle
    /\ DriverIdle

DriverNext ==
    \/ \E k \in RequestKinds : ReaderPut(k)
    \/ ReaderEof
    \/ \E i \in 1..MaxRequests + 1 : MainGet(i)
    \/ \E e \in Excs \cup {NoExc} : MainExec(e)
    \/ MainExit

DriverSpec == DriverInit /\ [][DriverNext]_vars

\* the ranking of the claim: SHUTDOWN above CANCEL above STATE_SYNC above
\* NORMAL (a lower number ranks higher)
Rank(method) ==
    CASE method \in {"close", "shutdown", "force_kill"} -> 0
      [] method = "cancel" -> 1
      [] method \in {"get_cookies", "set_cookies", "get_storage", "set_storage"} -> 2
      [] OTHER -> 3

\* C17: whenever the main loop dequeues a command, no command still in the
\* queue ranks higher; a queued close is taken before a queued normal
\* command.
C17_HighestPriorityFirst ==
    [][ (mpc = "get" /\ mpc' = "exec") =>
            \A j \in DOMAIN cmd_queue' :
                Rank(cur'.method) <= Rank(cmd_queue'[j].method) ]_vars

\* close was read after a click and is dequeued first
C17_Witness ==
    /\ mpc = "exec"
    /\ cur.method = "close" /\ cur.id = 2
    /\ Len(cmd_queue) = 1
    /\ cmd_queue[1].method = "click" /\ cmd_queue[1].id = 1

\* the code the claim gives a failure class
ClassCode(e) ==
    CASE e.cls = "NoSuchElementException" -> NOT_FOUND
      [] e.cls = "StaleElementReferenceException" -> STALE_INTENT
      [] e.cls = "TimeoutException" -> TIMEOUT_EXCEEDED
      [] e.cls = "ElementNotInteractableException" -> OBSTRUCTED
      [] OTHER -> DRIVER_CRASH

\* C18: a command that fails is answered with an error object, not a
\* result, whose code follows the failure class.
C18_AsStated ==
    \A t \in DOMAIN turns :
        turns[t].exc # NoExc =>
            /\ Len(turns[t].out) = 1
            /\ turns[t].out[1].kind = "error"
            /\ turns[t].out[1].code = ClassCode(turns[t].exc)

\* C19: every request the main loop dequeues produces exactly one response
\* line with the request's id, holding a result or an error object, an
\* error object when the method is unknown.
C19_AsStated ==
    \A t \in DOMAIN turns :
        /\ Len(turns[t].out) = 1
        /\ turns[t].out[1].id = turns[t].req.id
        /\ turns[t].out[1].kind \in {"result", "error"}
        /\ turns[t].req.method \notin DriverMethods \cup ShutdownMethods
              => turns[t].out[1].kind = "error"

\* C29: a goto, click or fill whose driver call ends with a connection
\* error on every attempt still gets its response: main() never blocks
\* inside the command.
C29_AsStated ==
    /\ mpc # "blocked"
    /\ \A i \in DOMAIN turns :
          (turns[i].req.method \in UnderLock /\ ConnectionError(turns[i].exc))
              => turns[i].out # <<>>

\* C39: every request read from stdin before end-of-input is executed and
\* answered before the driver exits, unless a shutdown command was
\* processed first.
C39_AsStated ==
    (mpc = "exited"
        /\ \A i \in DOMAIN turns : turns[i].req.method \notin ShutdownMethods) =>
            \A id \in 1..nread :
                \E i \in DOMAIN turns : turns[i].req.id = id /\ turns[i].out # <<>>

-----------------------------------------------------------------------------
(* SentinelBase._handle_protocol on one decoded frame, with the hooks of    *)
(* SentinelBase, which return at once (ProtocolSpec).                       *)

\* the ids a frame can carry (NoId: it has no "id")
MaxId == 2

\* "method" of a frame; "none": the frame has no "method"
FrameMethods ==
    {"starlight.pre_check", "starlight.shutdown", "starlight.entropy_stream",
     "starlight.sovereign_update", "starlight.sidetalk", "starlight.sidetalk_ack",
     "starlight.context_ack", "COMMAND_COMPLETE", "none"}

\* "params" of a frame: absent, or an object: empty, with some member other
\* than "context", or with a "context" member c
FrameParams == {"absent", "{}", "{x}", "{context:c}"}

Frames == [method : FrameMethods, params : FrameParams, id : 0..MaxId]

\* data.get("params", {})
GetParams(f) == IF f.params = "absent" THEN "{}" ELSE f.params

\* on_context_update is handed the whole params
GetContextWhole(params) == params

\* params.get("context", {})
GetContext(params) == IF params = "{context:c}" THEN "c" ELSE "{}"

\* one call of a hook; a member the hook does not take is "-" (NoData, 0)
Call(hook, method, params, data, id) ==
    [hook |-> hook, method |-> method, params |-> params, data |-> data, id |-> id]

\* the if/elif chain of _handle_protocol: the hooks it calls for frame f
HookCalls(f) ==
    LET params == GetParams(f)
    IN  CASE f.method = "starlight.pre_check" ->
                <<Call("on_pre_check", "-", params, NoData, f.id)>>
          [] f.method = "starlight.shutdown" -> <<>>
          [] f.method = "starlight.entropy_stream" ->
                <<Call("on_entropy", "-", params, NoData, 0)>>
          [] f.method = "starlight.sovereign_update" ->
                <<Call("on_context_update", "-", GetContext(params), NoData, 0)>>
          [] f.method = "starlight.sidetalk" ->
                <<Call("on_sidetalk", "-", params, NoData, 0)>>
          [] f.method = "starlight.sidetalk_ack" ->
                <<Call("on_sidetalk_ack", "-", params, NoData, 0)>>
          [] f.method = "none" ->
                <<Call("on_message", "none", "-", f, f.id)>>
          [] OTHER ->
                <<Call("on_message", f.method, params, NoData, f.id)>>

\* _handle_protocol(data).  The shutdown branch clears _running, saves the
\* memory and exits (no websocket is open here); the pre_check branch sets
\* _active_msg_id and its finally clause resets it.
HandleProtocol ==
    /\ ~handled
    /\ handled' = TRUE
    /\ calls' = calls \o HookCalls(frame)
    /\ IF frame.method = "starlight.shutdown"
       THEN running' = FALSE /\ saved' = TRUE
       ELSE UNCHANGED <<running, saved>>
    /\ UNCHANGED <<frame, rpc, conn, registered, inbox, hb, connects, nframes, cr,
                   dvars, svars, hvars, kvars, nvars>>

ProtocolInit ==
    /\ DispatchIdle
    /\ SaveIdle
    /\ RuntimeIdle
    /\ HubIdle
    /\ DriverIdle
    /\ MoreIdle
    /\ frame \in Frames
    /\ handled = FALSE
    /\ calls = <<>>

ProtocolNext == HandleProtocol

ProtocolSpec == ProtocolInit /\ [][ProtocolNext]_vars

\* the hook the claim names for a method ("-": the runtime handles the frame
\* itself)
HookOf(method) ==
    CASE method = "starlight.pre_check" -> "on_pre_check"
      [] method = "starlight.entropy_stream" -> "on_entropy"
      [] method = "starlight.sovereign_update" -> "on_context_update"
      [] method = "starlight.sidetalk" -> "on_sidetalk"
      [] method = "starlight.sidetalk_ack" -> "on_sidetalk_ack"
      [] method = "starlight.shutdown" -> "-"
      [] OTHER -> "on_message"

\* C20: _handle_protocol calls exactly one hook per frame, the one of the
\* frame's method: on_pre_check with the params and the frame id,
\* on_context_update with params.context, on_message for any other method
\* the runtime does not handle itself and for a frame with no method.
C20_OneHookPerFrame ==
    handled =>
        IF frame.method = "starlight.shutdown" THEN calls = <<>>
        ELSE /\ Len(calls) = 1
             /\ calls[1].hook = HookOf(frame.method)
             /\ calls[1].hook = "on_pre_check" =>
                    calls[1].params = GetParams(frame) /\ calls[1].id = frame.id
             /\ calls[1].hook = "on_context_update" =>
                    calls[1].params = (IF frame.params = "{context:c}" THEN "c" ELSE "{}")

\* a sidetalk_ack frame went to on_sidetalk_ack
C20_Witness ==
    /\ handled
    /\ frame.method = "starlight.sidetalk_ack"
    /\ Len(calls) = 1
    /\ calls[1].hook = "on_sidetalk_ack"


-----------------------------------------------------------------------------
(* PulseSentinel's clock arithmetic.  Times are integers, in milliseconds;  *)
(* the code computes with float seconds.                                    *)

\* entropy events in one behaviour (entropy_history keeps the last 10)
MaxEvents == 11

\* the times between two entropy events.  No 4 to 9 of them have a mean of
\* exactly 100 ms: on that boundary the float comparison of the code goes
\* either way.
Gaps == {90, 111, 250}

RECURSIVE SumSeq(_)
SumSeq(q) == IF q = <<>> THEN 0 ELSE Head(q) + SumSeq(Tail(q))

\* the for loop of _is_rhythmic_animation
Intervals(h) == [i \in 1..(Len(h) - 1) |-> h[i + 1] - h[i]]

\* avg_interval < 0.1, with avg_interval = sum(intervals) / len(intervals)
TooFast(iv) == SumSeq(iv) < 100 * Len(iv)

\* avg_interval <= 0.1
TooFastOrEqual(iv) == SumSeq(iv) <= 100 * Len(iv)

\* variance < 0.005 (seconds squared, 5000 ms squared), with variance =
\* sum((x - avg_interval) ** 2 for x in intervals) / len(intervals); both
\* sides are multiplied by len(intervals) ** 3
LowVariance(iv) ==
    LET n == Len(iv)
        S == SumSeq(iv)
    IN  SumSeq([i \in 1..n |-> (n * iv[i] - S) * (n * iv[i] - S)]) < 5000 * n * n * n

\* _is_rhythmic_animation
IsRhythmicAnimation(h) ==
    IF Len(h) < 5 THEN FALSE
    ELSE LET iv == Intervals(h)
         IN  IF TooFast(iv) THEN FALSE ELSE LowVariance(iv)

\* on_entropy(params): entropy is params.entropy, and time.time() has moved
\* on by dt since the last recorded event (the first event is at time 0).
\* With entropy false the handler changes nothing.
OnEntropy(entropy, dt) ==
    /\ layer = "PulseSentinel"
    /\ entropy
    /\ nevents < MaxEvents
    /\ nevents' = nevents + 1
    /\ LET now == IF entropy_history = <<>> THEN 0
                  ELSE entropy_history[Len(entropy_history)] + dt
           h == Append(entropy_history, now)
       IN  entropy_history' = IF Len(h) > 10 THEN Tail(h) ELSE h
    /\ obj' = [obj EXCEPT !.state = "IDLE"]
    /\ UNCHANGED <<layer, cfg, tasks, active, svars, rvars, hvars, kvars, pvars,
                   base_window, stability_hint, current_window, notm>>

EntropyInit ==
    /\ IdleButM
    /\ EntropyIdle
    /\ layer = "PulseSentinel"
    /\ cfg = [mode |-> "alert"]
    /\ obj \in ObjInit("PulseSentinel")
    /\ tasks = <<>>
    /\ active = NoId

EntropyNext == \E dt \in Gaps : OnEntropy(TRUE, dt)

EntropySpec == EntropyInit /\ [][EntropyNext]_vars

\* C22: _is_rhythmic_animation() is true exactly when 10 entropy events are
\* recorded and the intervals between them have a variance below the
\* epsilon and a mean above 100 ms.
C22_AsStated ==
    IsRhythmicAnimation(entropy_history) <=>
        /\ Len(entropy_history) >= 10
        /\ LowVariance(Intervals(entropy_history))
        /\ ~TooFastOrEqual(Intervals(entropy_history))

-----------------------------------------------------------------------------
(* The settlement window of on_pre_check (pulse_sentinel.py 107-119).       *)

\* the hints of the model are 100 ms apart, from -100 to 100 * HintSteps
HintSteps == 25

Hints == { 100 * k : k \in -1..HintSteps } \cup {450}

BaseWindows == {500, 1000, 2000}

Min(a, b) == IF a < b THEN a ELSE b
Max(a, b) == IF a > b THEN a ELSE b

\* max(base_window, min(2.0, (stability_hint / 1000.0) + 0.1))
DynamicWindow(hint, base) == Max(base, Min(2000, hint + 100))

\* current_window
CurrentWindow(hint, base) == IF hint > 0 THEN DynamicWindow(hint, base) ELSE base

\* on_pre_check computes current_window for the pre-check at hand
PreCheckWindow ==
    /\ current_window = -1
    /\ current_window' = CurrentWindow(stability_hint, base_window)
    /\ UNCHANGED <<old, notm, entropy_history, nevents, base_window, stability_hint>>

WindowInit ==
    /\ DispatchIdle
    /\ IdleButM
    /\ entropy_history = <<>>
    /\ nevents = 0
    /\ base_window \in BaseWindows
    /\ stability_hint \in Hints
    /\ current_window = -1

WindowNext == PreCheckWindow

WindowSpec == WindowInit /\ [][WindowNext]_vars

\* clamp(x, lo, hi)
Clamp(x, lo, hi) == Max(lo, Min(hi, x))

\* C23: the window on_pre_check uses is the hint clamped to the range from
\* the base window to 2 s, and the base window when the pre-check carries no
\* hint (stabilityHint defaults to 0).
C23_AsStated ==
    current_window # -1 =>
        current_window = IF stability_hint = 0 THEN base_window
                         ELSE Clamp(stability_hint, base_window, 2000)


-----------------------------------------------------------------------------
(* PIISentinel.on_pre_check on one pre-check, with the text it scans.  A    *)
(* text is a sequence of tokens; a token is a sequence of characters with   *)
(* the name of the pattern that matches it ("plain": none does).            *)

\* tokens of a page text
MaxTokens == 2

Token(type, s) == [type |-> type, s |-> s]

\* the custom pattern "pin" is \b\d{4}\b (pii.patterns of config.json)
Tokens ==
    { Token("plain", <<"h", "i">>),
      Token("ssn", <<"1", "2", "3", "-", "4", "5", "-", "6", "7", "8", "9">>),
      Token("email", <<"a", "@", "b", ".", "c", "o">>),
      Token("pin", <<"4", "2", "4", "2">>) }

Texts == UNION { [1..n -> Tokens] : n \in 0..MaxTokens }

\* "*" * n
Stars(n) == [i \in 1..n |-> "*"]

\* _redact(value)
Redact(value) ==
    IF Len(value) <= 4 THEN Stars(4)
    ELSE SubSeq(value, 1, 2) \o Stars(Len(value) - 4)
         \o SubSeq(value, Len(value) - 1, Len(value))

\* pattern.findall(text) for the pattern named type
FindAll(type, text) == SelectSeq(text, LAMBDA t : t.type = type)

\* the findings of one pattern
FindingsOf(type, text) ==
    LET ms == FindAll(type, text)
    IN  [i \in 1..Len(ms) |-> [type |-> type, value |-> Redact(ms[i].s),
                               raw_length |-> Len(ms[i].s)]]

\* scan_for_pii(text): the patterns in the order of self.patterns
ScanForPii(text) ==
    FindingsOf("email", text) \o FindingsOf("ssn", text) \o FindingsOf("pin", text)

\* what PIIPlan reads of the text
TextKind(text) ==
    IF text = <<>> THEN "none"
    ELSE IF ScanForPii(text) = <<>> THEN "clean" ELSE "pii"

\* on_pre_check up to its first await
PIIPreCheck ==
    /\ layer = "PIISentinel"
    /\ pii_plan = <<>> /\ pii_sent = <<>>
    /\ all_text' = page_text
    /\ detected_pii' = ScanForPii(page_text)
    /\ LET plan == PIIPlan(TextKind(page_text), cfg.mode)
       IN  /\ pii_sent' = <<Head(plan).m>>
           /\ pii_plan' = Tail(plan)
    /\ UNCHANGED <<dvars, svars, rvars, hvars, kvars, pvars, noti, page_text>>

\* the handler resumes after an await
PIIResume ==
    /\ layer = "PIISentinel"
    /\ pii_plan # <<>>
    /\ pii_plan' = Tail(pii_plan)
    /\ pii_sent' = IF Head(pii_plan).k \in {"vote", "send"}
                   THEN Append(pii_sent, Head(pii_plan).m) ELSE pii_sent
    /\ UNCHANGED <<dvars, svars, rvars, hvars, kvars, pvars, noti,
                   page_text, all_text, detected_pii>>

RedactInit ==
    /\ IdleButI
    /\ layer = "PIISentinel"
    /\ cfg \in [mode : {"alert", "block", "redact"}]
    /\ obj \in ObjInit("PIISentinel")
    /\ tasks = <<>>
    /\ active = NoId
    /\ page_text \in Texts
    /\ all_text = <<>>
    /\ detected_pii = <<>>
    /\ pii_plan = <<>>
    /\ pii_sent = <<>>

RedactNext == PIIPreCheck \/ PIIResume

RedactSpec == RedactInit /\ [][RedactNext]_vars

\* on_pre_check has returned
PIIDone == pii_sent # <<>> /\ pii_plan = <<>>

\* C24: with pii.mode = redact, once on_pre_check has let the pre-check go
\* on, every PII match of its text is replaced by a mask as long as the
\* match.
C24_AsStated ==
    (cfg.mode = "redact" /\ PIIDone) =>
        /\ Len(all_text) = Len(page_text)
        /\ \A i \in DOMAIN page_text :
              page_text[i].type # "plain" =>
                  all_text[i].s = Stars(Len(page_text[i].s))


-----------------------------------------------------------------------------
(* A11ySentinel.on_pre_check on one pre-check, over an open connection.     *)

\* len(self.rules)
NRules == 8

\* params.a11y_snapshot: absent (the default, with two empty lists), null,
\* an object with two empty lists, a value that is no object (a non-empty
\* list), an object with elements
Snapshots == {"absent", "null", "empty", "list", "data"}

\* what a rule does: it raises, or it returns violations, or only passes
RuleOutcomes == {"raise", "violation", "pass"}

\* what _report_violations does: it raises before anything is written
\* (_calculate_score, _get_level or json.dumps fails), or it sends its frame
ReportOutcomes == {"raise", "sent"}

\* violations is not empty after the loop over self.rules
HasViolations(outs) == \E r \in DOMAIN outs : outs[r] = "violation"

\* The frames of the handler when an error outside the loop over the rules
\* ends it.
A11yPlanErrorEscapes(snap, outs, report) ==
    IF snap = "list" THEN <<Ret>>
    ELSE IF snap = "data" /\ HasViolations(outs)
    THEN IF report = "sent" THEN <<Send("context_update"), Vote("clear"), Ret>>
         ELSE <<Ret>>
    ELSE <<Vote("clear"), Ret>>

\* The frames of the handler.  dom_data.get of a value that is no object and
\* an error of _report_violations are caught by the outer except; an error
\* of a rule is caught inside the loop.
A11yPlan(snap, outs, report) ==
    IF snap = "data" /\ HasViolations(outs) /\ report = "sent"
    THEN <<Send("context_update"), Vote("clear"), Ret>>
    ELSE <<Vote("clear"), Ret>>

\* on_pre_check up to its first await that suspends (the rules await
\* nothing)
A11yPreCheck(outs, report) ==
    /\ layer = "A11ySentinel"
    /\ a11y_pc = "new"
    /\ LET audited == a11y_snapshot = "data"
           reports == audited /\ HasViolations(outs)
           plan == A11yPlan(a11y_snapshot, outs, report)
       IN  /\ ~reports => report = "-"
           /\ reports => report \in ReportOutcomes
           /\ audit' = IF audited THEN [rules |-> outs, report |-> report]
                       ELSE NoAudit
           /\ audit_count' = IF audited THEN audit_count + 1 ELSE audit_count
           /\ a11y_sent' = IF Head(plan).k \in {"vote", "send"}
                           THEN <<Head(plan).m>> ELSE <<>>
           /\ a11y_plan' = Tail(plan)
           /\ a11y_pc' = IF Head(plan).k = "ret" THEN "done" ELSE "run"
    /\ UNCHANGED <<dvars, svars, rvars, hvars, kvars, pvars, nota, a11y_snapshot>>

\* the handler resumes after an await
A11yResume ==
    /\ layer = "A11ySentinel"
    /\ a11y_pc = "run"
    /\ a11y_plan' = Tail(a11y_plan)
    /\ a11y_pc' = IF Head(a11y_plan).k = "ret" THEN "done" ELSE "run"
    /\ a11y_sent' = IF Head(a11y_plan).k \in {"vote", "send"}
                    THEN Append(a11y_sent, Head(a11y_plan).m) ELSE a11y_sent
    /\ UNCHANGED <<dvars, svars, rvars, hvars, kvars, pvars, nota,
                   a11y_snapshot, audit, audit_count>>

A11yInit ==
    /\ IdleButA
    /\ layer = "A11ySentinel"
    /\ cfg = [mode |-> "alert"]
    /\ obj \in ObjInit("A11ySentinel")
    /\ tasks = <<>>
    /\ active = NoId
    /\ a11y_snapshot \in Snapshots
    /\ audit = NoAudit
    /\ audit_count = 0
    /\ a11y_pc = "new"
    /\ a11y_plan = <<>>
    /\ a11y_sent = <<>>

\* the ways the rules can go for a snapshot (they run for "data" only)
RuleRuns(snap) ==
    IF snap = "data" THEN [1..NRules -> RuleOutcomes]
    ELSE {[r \in 1..NRules |-> "pass"]}

A11yNext ==
    \/ /\ a11y_pc = "new"
       /\ \E outs \in RuleRuns(a11y_snapshot), report \in ReportOutcomes \cup {"-"} :
             A11yPreCheck(outs, report)
    \/ A11yResume

A11ySpec == A11yInit /\ [][A11yNext]_vars

\* the frames sent so far whose method is m
A11ySent(m) == Len(SelectSeq(a11y_sent, LAMBDA f : f = m))

\* C25: whatever the snapshot is, and whether or not a rule or the report
\* raises, A11ySentinel sends no wait and no hijack, never a second clear,
\* and exactly one clear once on_pre_check has returned.
C25_OneClearOnly ==
    /\ A11ySent("wait") = 0
    /\ A11ySent("hijack") = 0
    /\ A11ySent("clear") <= 1
    /\ a11y_pc = "done" => A11ySent("clear") = 1

\* an audit in which a rule raised, another found violations and the report
\* raised has ended with its clear
C25_Witness ==
    /\ a11y_pc = "done"
    /\ audit.report = "raise"
    /\ \E r \in DOMAIN audit.rules : audit.rules[r] = "raise"
    /\ a11y_sent = <<"clear">>


-----------------------------------------------------------------------------
(* The content of the memory file: _save_memory writes self.memory with     *)
(* json.dump, _load_memory reads it with json.load.  self.memory maps       *)
(* obstacle ids to the selectors that worked (both strings; the test stores *)
(* True).  A file is a sequence of JSON tokens.  The steps of the write and *)
(* its failures are in SaveSpec.                                            *)

\* obstacle ids a memory can hold
MaxKeys == 2

KeyNames == <<"o1", "o2", "o3">>
Keys == { KeyNames[i] : i \in 1..MaxKeys }

\* Python values
PyStr(str) == [py |-> "str", v |-> str]
PyTrue == [py |-> "bool", v |-> "True"]
PyValues == {PyStr("s1"), PyStr("true"), PyTrue}

\* the dicts self.memory can be
Maps == UNION { [S -> PyValues] : S \in SUBSET Keys }

\* JSON tokens: a string, a literal, a brace
JString(str) == [j |-> "string", v |-> str]
JLiteral(str) == [j |-> "literal", v |-> str]
JBrace(str) == [j |-> "brace", v |-> str]

\* json.dump writes every value as a string
DumpValueQuoted(x) == JString(IF x.py = "bool" THEN "true" ELSE x.v)

\* json.dump of a value
DumpValue(x) == IF x.py = "bool" THEN JLiteral("true") ELSE JString(x.v)

\* json.dump of the members of m whose keys are KeyNames[i..]
RECURSIVE DumpMembers(_, _)
DumpMembers(m, i) ==
    IF i > Len(KeyNames) THEN <<>>
    ELSE (IF KeyNames[i] \in DOMAIN m
          THEN <<JString(KeyNames[i]), DumpValue(m[KeyNames[i]])>> ELSE <<>>)
         \o DumpMembers(m, i + 1)

\* json.dump(self.memory, f, indent=4)
Dump(m) == <<JBrace("{")>> \o DumpMembers(m, 1) \o <<JBrace("}")>>

\* json.load accepts the text: an object whose members are a string and a
\* value each
WellFormed(text) ==
    /\ Len(text) >= 2
    /\ text[1] = JBrace("{")
    /\ text[Len(text)] = JBrace("}")
    /\ Len(text) % 2 = 0
    /\ \A i \in 2..(Len(text) - 1) :
          IF i % 2 = 0 THEN text[i].j = "string" ELSE text[i].j # "brace"

\* json.load of a value
LoadValue(t) == IF t.j = "literal" THEN PyTrue ELSE PyStr(t.v)

\* json.load of a well-formed text
Load(text) ==
    LET ks == { text[i].v : i \in { j \in 2..(Len(text) - 1) : j % 2 = 0 } }
    IN  [k \in ks |->
            LoadValue(text[(CHOOSE i \in 2..(Len(text) - 1) :
                               i % 2 = 0 /\ text[i].v = k) + 1])]

\* the files a Sentinel can find: none, a complete one, and corrupt ones: a
\* file cut short (empty at the shortest) and a file with a stray token
JsonFiles ==
    {[exists |-> FALSE, text |-> <<>>]}
    \cup UNION { { [exists |-> TRUE, text |-> SubSeq(Dump(m), 1, n)] :
                     n \in 0..Len(Dump(m)) } : m \in Maps }
    \cup { [exists |-> TRUE, text |-> Dump(m) \o <<JBrace("}")>>] : m \in Maps }

\* the file exists and json.load raises JSONDecodeError
Corrupt(f) == f.exists /\ ~WellFormed(f.text)

\* the outcome of _load_memory: the memory after it, or an exception
Loaded(mem) == [raised |-> FALSE, memory |-> mem]
Raised(mem) == [raised |-> TRUE, memory |-> mem]

\* _load_memory with the JSONDecodeError not caught
LoadMemoryUncaught(f, mem) ==
    IF ~f.exists THEN Loaded(mem)
    ELSE IF WellFormed(f.text) THEN Loaded(Load(f.text))
    ELSE Raised(mem)

\* _load_memory
LoadMemory(f, mem) ==
    IF ~f.exists THEN Loaded(mem)
    ELSE IF WellFormed(f.text) THEN Loaded(Load(f.text))
    ELSE Loaded(<<>>)

\* sentinel.memory = M; sentinel._save_memory()
SaveMemory ==
    /\ lpc = "init"
    /\ json_file' = [exists |-> TRUE, text |-> Dump(saver)]
    /\ lpc' = "saved"
    /\ UNCHANGED <<old, notl, saver, loaded>>

\* a new Sentinel of the same layer: start() calls _load_memory() and sets
\* _running; an exception that escapes _load_memory ends start()
StartLoad ==
    /\ lpc \in {"init", "saved"}
    /\ LET res == LoadMemory(json_file, loaded)
       IN  /\ lpc' = IF res.raised THEN "crashed"
                     ELSE IF lpc = "saved" THEN "loop after save" ELSE "loop"
           /\ loaded' = res.memory
    /\ UNCHANGED <<old, notl, json_file, saver>>

\* websockets.connect(self.uri) succeeds
StartConnect ==
    /\ lpc \in {"loop", "loop after save"}
    /\ lpc' = "connected"
    /\ UNCHANGED <<old, notl, json_file, saver, loaded>>

\* await self._register()
StartRegister ==
    /\ lpc = "connected"
    /\ lpc' = "registered"
    /\ UNCHANGED <<old, notl, json_file, saver, loaded>>

LoadInit ==
    /\ DispatchIdle
    /\ IdleButL
    /\ json_file \in JsonFiles
    /\ saver \in Maps
    /\ loaded = <<>>
    /\ lpc = "init"

LoadNext == SaveMemory \/ StartLoad \/ StartConnect \/ StartRegister

LoadSpec == LoadInit /\ [][LoadNext]_vars

\* C26: a Sentinel that starts with a corrupt memory file has an empty
\* memory and start() has not ended: it is at its connection loop or beyond.
C26_CorruptIsEmpty ==
    (Corrupt(json_file) /\ lpc # "init") =>
        /\ lpc \in {"loop", "connected", "registered"}
        /\ loaded = <<>>

\* a Sentinel that found a file cut short has registered
C26_Witness ==
    /\ Corrupt(json_file)
    /\ Len(json_file.text) > 1
    /\ lpc = "registered"

\* C27: _load_memory on a new Sentinel, right after _save_memory on another
\* of the same layer, yields the memory that was saved.
C27_RoundTrip ==
    [][ (lpc = "saved" /\ lpc' # "saved") =>
            /\ lpc' = "loop after save"
            /\ loaded' = saver ]_vars

\* a memory with a string and a True in it has gone through the file
C27_Witness ==
    /\ lpc = "loop after save"
    /\ loaded = saver
    /\ \E k \in DOMAIN saver : saver[k] = PyTrue
    /\ \E k \in DOMAIN saver : saver[k] = PyStr("true")


-----------------------------------------------------------------------------
(* The extended action helpers of SentinelBase.  An argument is a string;   *)
(* "None" stands for None (the argument was left out) and "" is the empty   *)
(* string.  The params of a frame are the set of its members <<key, value>>; *)
(* json.dumps writes each of them as "key": "value".                        *)

\* helper calls in one behaviour
MaxCalls == 2

Helpers ==
    {"send_click", "send_fill", "send_select", "send_hover", "send_check",
     "send_uncheck", "send_scroll", "send_press", "send_type"}

\* the verb a helper sends
VerbOf(fn) ==
    CASE fn = "send_click" -> "click"
      [] fn = "send_fill" -> "fill"
      [] fn = "send_select" -> "select"
      [] fn = "send_hover" -> "hover"
      [] fn = "send_check" -> "check"
      [] fn = "send_uncheck" -> "uncheck"
      [] fn = "send_scroll" -> "scroll"
      [] fn = "send_press" -> "press"
      [] fn = "send_type" -> "type"

\* the arguments a helper takes besides msg_id
TakesSelector(fn) == fn \notin {"send_press", "send_type"}
TakesText(fn) == fn \in {"send_fill", "send_type"}
TakesValue(fn) == fn = "send_select"
TakesKey(fn) == fn = "send_press"

\* the calls of the model; only send_scroll can leave its selector out
HelperCalls ==
    { c \in [fn : Helpers, selector : {"None", "#a"}, text : {"None", "", "t"},
             value : {"None", "", "v"}, key : {"None", "Enter"}, msg_id : {NoId, 1}] :
        /\ IF TakesSelector(c.fn)
           THEN c.selector = "None" => c.fn = "send_scroll"
           ELSE c.selector = "None"
        /\ IF TakesText(c.fn) THEN c.text # "None" ELSE c.text = "None"
        /\ IF TakesValue(c.fn) THEN c.value # "None" ELSE c.value = "None"
        /\ IF TakesKey(c.fn) THEN c.key # "None" ELSE c.key = "None" }

\* if x: (for a str or None)
Truthy(x) == x \notin {"None", ""}

\* send_action with the verb under "cmd", as the SDK v2.7 of the demo
\* project builds it
ActionParamsCmd(action, selector, text, value, key) ==
    {<<"cmd", action>>, <<"selector", selector>>}
    \cup (IF Truthy(text) THEN {<<"text", text>>} ELSE {})
    \cup (IF Truthy(value) THEN {<<"value", value>>} ELSE {})
    \cup (IF Truthy(key) THEN {<<"key", key>>} ELSE {})

\* send_action: the params it builds
ActionParams(action, selector, text, value, key) ==
    {<<"action", action>>, <<"selector", selector>>}
    \cup (IF Truthy(text) THEN {<<"text", text>>} ELSE {})
    \cup (IF Truthy(value) THEN {<<"value", value>>} ELSE {})
    \cup (IF Truthy(key) THEN {<<"key", key>>} ELSE {})

\* the params a helper hands to _send_msg
HelperParams(c) ==
    CASE c.fn = "send_press" -> {<<"action", "press">>, <<"key", c.key>>}
      [] c.fn = "send_type" -> {<<"action", "type">>, <<"text", c.text>>}
      [] c.fn = "send_scroll" ->
            ActionParams("scroll", IF Truthy(c.selector) THEN c.selector ELSE "",
                         "None", "None", "None")
      [] OTHER -> ActionParams(VerbOf(c.fn), c.selector, c.text, c.value, c.key)

\* _send_msg(method, params, msg_id): the frames it sends
SendMsg(ws, method, params, msg_id) ==
    IF ws THEN <<[jsonrpc |-> "2.0", method |-> method, params |-> params,
                  id |-> FinalId(msg_id)]>>
    ELSE <<>>

\* one call of a helper
HelperCall(c) ==
    /\ Len(helper_calls) < MaxCalls
    /\ helper_calls' =
          Append(helper_calls,
                 [call |-> c,
                  frames |-> SendMsg(websocket, "starlight.action",
                                     HelperParams(c), c.msg_id)])
    /\ UNCHANGED <<old, notw, websocket>>

ActionInit ==
    /\ DispatchIdle
    /\ IdleButW
    /\ websocket \in BOOLEAN
    /\ helper_calls = <<>>

ActionNext == \E c \in HelperCalls : HelperCall(c)

ActionSpec == ActionInit /\ [][ActionNext]_vars

\* the members a call is to put beside the verb: the selector, text, value
\* or key that was passed (send_scroll without a selector passes "")
PassedMembers(c) ==
    (IF TakesSelector(c.fn)
     THEN {<<"selector", IF c.selector = "None" THEN "" ELSE c.selector>>} ELSE {})
    \cup (IF TakesText(c.fn) THEN {<<"text", c.text>>} ELSE {})
    \cup (IF TakesValue(c.fn) THEN {<<"value", c.value>>} ELSE {})
    \cup (IF TakesKey(c.fn) THEN {<<"key", c.key>>} ELSE {})

\* the same, without the empty text of send_fill and the empty value of
\* send_select
SentMembers(c) ==
    { m \in PassedMembers(c) :
        (c.fn \in {"send_fill", "send_select"} /\ m[1] \in {"text", "value"})
            => m[2] # "" }

-----------------------------------------------------------------------------
(* The command queue of the stealth driver: queue.PriorityQueue keeps its  *)
(* entries in a list ordered as a binary heap (heapq), and                 *)
(* PrioritizedCommand compares by priority only.  InputReader puts, main() *)
(* gets; positions count from 0 as in heapq.                               *)

MaxPuts == 4

\* the methods InputReader reads here: two of NORMAL priority, one of
\* STATE_SYNC priority, one that shuts the driver down
QueueMethods == {"click", "goto", "get_cookies", "close"}

\* PrioritizedCommand.__lt__ (order=True, request: compare=False)
Less(a, b) == a.priority < b.priority

RECURSIVE SiftDown(_, _, _)
\* heapq._siftdown(heap, 0, pos) with newitem to be placed
SiftDown(heap, pos, newitem) ==
    LET parentpos == (pos - 1) \div 2
    IN  IF pos > 0 /\ Less(newitem, heap[parentpos + 1])
        THEN SiftDown([heap EXCEPT ![pos + 1] = heap[parentpos + 1]],
                      parentpos, newitem)
        ELSE [heap EXCEPT ![pos + 1] = newitem]

RECURSIVE SiftUp(_, _, _)
\* heapq._siftup(heap, 0): the smaller child is moved up until a leaf is
\* reached, then newitem is put there and sifted down
SiftUp(heap, pos, newitem) ==
    LET endpos == Len(heap)
        leftpos == 2 * pos + 1
        rightpos == leftpos + 1
        childpos == IF rightpos < endpos
                       /\ ~Less(heap[leftpos + 1], heap[rightpos + 1])
                    THEN rightpos ELSE leftpos
    IN  IF leftpos < endpos
        THEN SiftUp([heap EXCEPT ![pos + 1] = heap[childpos + 1]],
                    childpos, newitem)
        ELSE SiftDown(heap, pos, newitem)

\* heapq.heappush
HeapPush(heap, item) == SiftDown(Append(heap, item), Len(heap), item)

\* heapq.heappop: the item returned
HeapTop(heap) == heap[1]

\* heapq.heappop: the heap it leaves
HeapPop(heap) ==
    LET lastelt == heap[Len(heap)]
        rest == SubSeq(heap, 1, Len(heap) - 1)
    IN  IF rest = <<>> THEN rest ELSE SiftUp(rest, 0, lastelt)

\* main() has processed a shutdown command and left its loop
QueueStopped ==
    \E i \in DOMAIN pq_taken : pq_taken[i].method \in ShutdownMethods

\* InputReader.run: a request is read, given its priority and put
QueuePut(method) ==
    /\ pq_read < MaxPuts
    /\ ~QueueStopped
    /\ pq_read' = pq_read + 1
    /\ pq_heap' = HeapPush(pq_heap, [priority |-> PriorityOf(method),
                                     id |-> pq_read + 1, method |-> method])
    /\ UNCHANGED <<old, notq, pq_taken>>

\* main(): one turn of the loop, cmd_queue.get and the command's execution
QueueGet ==
    /\ pq_heap # <<>>
    /\ ~QueueStopped
    /\ pq_taken' = Append(pq_taken, HeapTop(pq_heap))
    /\ pq_heap' = HeapPop(pq_heap)
    /\ UNCHANGED <<old, notq, pq_read>>

QueueInit ==
    /\ DispatchIdle
    /\ IdleButQ
    /\ QueueIdle

QueueNext ==
    \/ \E method \in QueueMethods : QueuePut(method)
    \/ QueueGet

QueueSpec == QueueInit /\ [][QueueNext]_vars

\* C32: commands of the same priority are executed in the order in which
\* they were read from stdin.
C32_AsStated ==
    \A i, j \in DOMAIN pq_taken :
        (i < j /\ pq_taken[i].priority = pq_taken[j].priority)
            => pq_taken[i].id < pq_taken[j].id

-----------------------------------------------------------------------------
(* StealthSentinel between two navigations: on_pre_check counts the        *)
(* detections and decides before its first await; on_entropy with          *)
(* navigation set resets the count.                                        *)

MaxDetections == 5

\* params.page_text: nothing suspicious, an anti-bot signature, a
\* "please wait" challenge
StealthTexts == {"plain", "bot", "challenge"}

\* the status on_pre_check reports with update_context ("-": no report)
StealthStatus(text, count) ==
    IF ~StealthDetected(text) THEN "-"
    ELSE IF StealthIsChallenge(text) /\ count <= StealthMaxWaits THEN "-"
    ELSE IF count > StealthMaxWaits THEN "BLOCKED"
    ELSE "WARNING"

\* on_pre_check: the count, the decision and the frames it sends
StealthPreCheck(text) ==
    /\ layer = "StealthSentinel"
    /\ Len(st_seen) < MaxDetections
    /\ LET count == IF StealthDetected(text)
                    THEN obj.detection_count + 1 ELSE obj.detection_count
       IN  /\ obj' = [obj EXCEPT !.detection_count = count]
           /\ st_seen' = Append(st_seen, [text |-> text,
                                          plan |-> StealthPlan(text, count),
                                          status |-> StealthStatus(text, count)])
    /\ UNCHANGED <<layer, cfg, tasks, active, svars, rvars, hvars, kvars, pvars, nott>>

\* on_entropy with params.navigation set
StealthNavigation ==
    /\ layer = "StealthSentinel"
    /\ obj' = [obj EXCEPT !.detection_count = 0]
    /\ st_seen' = <<>>
    /\ UNCHANGED <<layer, cfg, tasks, active, svars, rvars, hvars, kvars, pvars, nott>>

StealthInit ==
    /\ IdleButT
    /\ StealthIdle
    /\ layer = "StealthSentinel"
    /\ cfg = [mode |-> "alert"]
    /\ obj \in {o \in ObjInit("StealthSentinel") : o.detection_count = 0}
    /\ tasks = <<>>
    /\ active = NoId

StealthNext ==
    \/ \E text \in StealthTexts : StealthPreCheck(text)
    \/ StealthNavigation

StealthSpec == StealthInit /\ [][StealthNext]_vars

\* the pre-check answered with a hijack
StealthHijacked(e) == \E k \in DOMAIN e.plan : e.plan[k].m = "hijack"

\* the pre-check answered with a clear
StealthCleared(e) == \E k \in DOMAIN e.plan : e.plan[k].m = "clear"

\* the detections among the first i pre-checks since the last navigation
StealthDetections(i) ==
    Cardinality({j \in 1..i : StealthDetected(st_seen[j].text)})

\* C35: between two navigations StealthSentinel hijacks at most 3 times,
\* and the fourth and every later detection is answered with clear, no
\* hijack, and a report of status BLOCKED.
C35_ThreeHijacks ==
    /\ Cardinality({i \in DOMAIN st_seen : StealthHijacked(st_seen[i])}) <= 3
    /\ \A i \in DOMAIN st_seen :
          (StealthDetected(st_seen[i].text) /\ StealthDetections(i) >= 4) =>
              /\ ~StealthHijacked(st_seen[i])
              /\ StealthCleared(st_seen[i])
              /\ st_seen[i].status = "BLOCKED"

\* three challenges were waited out, the fourth and the fifth were cleared
\* and reported as BLOCKED
C35_Witness ==
    /\ Len(st_seen) = 5
    /\ \A i \in 1..5 : st_seen[i].text = "challenge"
    /\ \A i \in 1..3 : StealthHijacked(st_seen[i])
    /\ \A i \in 4..5 : StealthCleared(st_seen[i]) /\ st_seen[i].status = "BLOCKED"

-----------------------------------------------------------------------------
(* What VisionSentinel learns: on_pre_check records the action of its      *)
(* hijack in last_action, on_message learns from COMMAND_COMPLETE.         *)

MaxMessages == 4

\* the keywords analyze_screenshot returns here
Obstacles == {"popup", "modal"}

\* target_selector when memory has no entry for the obstacle
DefaultSelector == "button:has-text('Close') >> visible=true"

\* the selectors a memory file holds: the default one or one written by hand
Selectors == {DefaultSelector, "#x"}

\* params.type of the frame on_message is given
MessageTypes == {"COMMAND_COMPLETE", "OTHER"}

\* on_message that keeps last_action after a failure
VisionLastAfterKept(last, type, success) ==
    IF type = "COMMAND_COMPLETE" /\ last # NoAction /\ success
    THEN NoAction ELSE last

\* self.last_action when on_message returns
VisionLastAfter(last, type, success) ==
    IF type = "COMMAND_COMPLETE" /\ last # NoAction THEN NoAction ELSE last

\* self.memory when on_message returns
VisionMemoryAfter(mem, last, type, success) ==
    IF type = "COMMAND_COMPLETE" /\ last # NoAction /\ success
       /\ mem[last.id] # last.selector
    THEN [mem EXCEPT ![last.id] = last.selector]
    ELSE mem

\* on_pre_check for a screenshot in which analyze_screenshot finds the
\* obstacle: hijack, click, and the action is recorded
VisionHijack(obstacle) ==
    /\ v_count < MaxMessages
    /\ v_count' = v_count + 1
    /\ v_event' = [type |-> "pre_check", success |-> FALSE]
    /\ v_last' = [id |-> obstacle,
                  selector |-> IF v_memory[obstacle] # "-"
                               THEN v_memory[obstacle] ELSE DefaultSelector]
    /\ UNCHANGED <<old, notv, v_memory, v_file>>

\* on_message; wrote: _save_memory, when called, writes the file (it
\* swallows its own failure)
VisionOnMessage(type, success, wrote) ==
    /\ v_count < MaxMessages
    /\ v_count' = v_count + 1
    /\ v_event' = [type |-> type, success |-> success]
    /\ v_memory' = VisionMemoryAfter(v_memory, v_last, type, success)
    /\ v_file' = IF v_memory' # v_memory /\ wrote THEN v_memory' ELSE v_file
    /\ v_last' = VisionLastAfter(v_last, type, success)
    /\ UNCHANGED <<old, notv>>

\* after _load_memory: self.memory is what the file holds
VisionInit ==
    /\ DispatchIdle
    /\ IdleButV
    /\ v_memory \in [Obstacles -> Selectors \cup {"-"}]
    /\ v_file = v_memory
    /\ v_last = NoAction
    /\ v_event = [type |-> "-", success |-> FALSE]
    /\ v_count = 0

VisionNext ==
    \/ \E obstacle \in Obstacles : VisionHijack(obstacle)
    \/ \E type \in MessageTypes, success \in BOOLEAN, wrote \in BOOLEAN :
          VisionOnMessage(type, success, wrote)

VisionSpec == VisionInit /\ [][VisionNext]_vars

\* the step is on_message for a COMMAND_COMPLETE, with a last action pending
VisionCompletes ==
    /\ v_count' = v_count + 1
    /\ v_event'.type = "COMMAND_COMPLETE"
    /\ v_last # NoAction

-----------------------------------------------------------------------------
(* starlight.shutdown: the read loop of start() hands the frame to a task  *)
(* of _handle_protocol, which runs beside start() and the heartbeat tasks. *)

\* a close() that leaves the connection as it is
CloseOfNothing(c) == c

\* await self._websocket.close(): an open connection is closed
CloseOf(c) == IF c = "open" THEN "closed" ELSE c

\* the Hub sends starlight.shutdown and the read loop takes it:
\* asyncio.create_task(self._handle_protocol(data))
ReadShutdown ==
    /\ ~exited
    /\ rpc = "reading"
    /\ conn = "open"
    /\ inbox = <<>>
    /\ running
    /\ sd_pc = "none"
    /\ sd_pc' = "created"
    /\ UNCHANGED <<rvars, dvars, svars, hvars, kvars, pvars, notz, exited>>

\* the task's first step: self._running = False, and close() is awaited
ShutdownBegin ==
    /\ ~exited
    /\ sd_pc = "created"
    /\ running' = FALSE
    /\ conn' = CloseOf(conn)
    /\ sd_pc' = "closing"
    /\ UNCHANGED <<rpc, registered, inbox, hb, connects, nframes, cr, saved,
                   dvars, svars, hvars, kvars, pvars, notz, exited>>

\* close() has returned: self._save_memory() and sys.exit(0), which ends
\* the event loop and the process
ShutdownEnd ==
    /\ ~exited
    /\ sd_pc = "closing"
    /\ saved' = TRUE
    /\ sd_pc' = "done"
    /\ exited' = TRUE
    /\ UNCHANGED <<rpc, running, conn, registered, inbox, hb, connects, nframes, cr,
                   dvars, svars, hvars, kvars, pvars, notz>>

\* start() has returned: asyncio.run cancels the tasks that are left and
\* the process exits
MainReturns ==
    /\ ~exited
    /\ rpc = "returned"
    /\ exited' = TRUE
    /\ UNCHANGED <<rvars, dvars, svars, hvars, kvars, pvars, notz, sd_pc>>

\* The task is ready to run from the moment it is created, so it takes its
\* first step before a timer that start() sleeps on can fire.
ShutdownNext ==
    \/ ~exited /\ LoopTest
    \/ ~exited /\ ConnectOk
    \/ ~exited /\ ConnectFails
    \/ ~exited /\ Register
    \/ ~exited /\ Read
    \/ ~exited /\ ReadEnd
    \/ ~exited /\ AfterConnection
    \/ ~exited /\ sd_pc # "created" /\ BackoffElapsed
    \/ ~exited /\ FinalSave
    \/ ~exited /\ Signal
    \/ \E c \in 1..MaxConnects : ~exited /\ HeartbeatSend(c)
    \/ \E c \in 1..MaxConnects : ~exited /\ HeartbeatWake(c)
    \/ \E f \in RxFrames : ~exited /\ HubSend(f)
    \/ ~exited /\ HubClose
    \/ ReadShutdown
    \/ ShutdownBegin
    \/ ShutdownEnd
    \/ MainReturns

\* the event loop runs every task that is ready, and timers expire
ShutdownSpec ==
    /\ RuntimeInit
    /\ [][ShutdownNext]_vars
    /\ WF_vars(~exited /\ sd_pc # "created" /\ StartStep)
    /\ WF_vars(ShutdownBegin)
    /\ WF_vars(ShutdownEnd)
    /\ WF_vars(MainReturns)

\* C38: once starlight.shutdown has been read, the runtime stops running
\* as soon as the frame is handled, no connection attempt is started any
\* more, and the process exits in the end, with the connection closed and
\* the memory saved.
C38_ShutdownExits ==
    /\ [](sd_pc \in {"closing", "done"} => ~running)
    /\ [][sd_pc # "none" => connects' = connects]_vars
    /\ []((exited /\ sd_pc # "none") => (saved /\ conn # "open" /\ ~running))
    /\ (sd_pc # "none") ~> exited

\* the shutdown task has closed the connection, saved and exited
C38_Witness ==
    /\ sd_pc = "done"
    /\ exited
    /\ saved
    /\ conn = "closed"
    /\ connects = 1

=============================================================================
